---- MODULE Spec2Model ----
(***************************************************************************)
(* A model of the interpreter of sahwork21/C_Language_Parser: the value    *)
(* system (value.c), the evaluator (syntax.c), the tokenizer and parser    *)
(* (parse.c) and the driver loop (interpret.c).                            *)
(***************************************************************************)
EXTENDS Integers, Sequences, FiniteSets, TLC

VARIABLES heap, env, out, err, status, last, nstmts,
          input, fp, lineCount, stmt, pc

vars == <<heap, env, out, err, status, last, nstmts,
          input, fp, lineCount, stmt, pc>>

\* Only({ e : x \in {v} }) is e with x standing for the value of v: a local
\* of the C code that is assigned once and read more than once
Only(S) == CHOOSE x \in S : TRUE

(***************************************************************************)
(* Program constants.                                                      *)
(***************************************************************************)
INIT_CAP == 5
DOUBLE_CAP == 2
MAX_VAR_NAME == 20
UCHAR_RANGE == 256

(***************************************************************************)
(* Bounds of the model.                                                    *)
(***************************************************************************)
\* number of top-level statements a run executes before it must end
MaxStmts == 2

(***************************************************************************)
(* Values (value.h): a tagged union.  Reading .ival of a SeqType value     *)
(* reinterprets the bytes of the pointer: PtrBits are the outcomes the     *)
(* model lets that read produce.                                           *)
(***************************************************************************)
IntValue(i) == [vtype |-> "IntType", ival |-> i, sval |-> 0]
SeqValue(h) == [vtype |-> "SeqType", ival |-> 0, sval |-> h]

PtrBits == {-7, 2}

\* v.ival as the C code reads it, whatever the tag says
ival(v, junk) == IF v.vtype = "IntType" THEN v.ival ELSE junk

(***************************************************************************)
(* The machine: the heap of Sequence objects, the Environment, stdout,     *)
(* stderr and the process status.  m.last is a label of what was last      *)
(* evaluated (statement kind, outermost operator, operand kinds).          *)
(***************************************************************************)
NoLast == [stmt |-> "none", op |-> "none", t1 |-> "-", t2 |-> "-"]

Running(m) == m.status = "running"

\* a report that writes the diagnostic and returns
Fail_goeson(m, msg) == [m EXCEPT !.err = Append(@, msg)]

\* fprintf( stderr, msg ); exit( EXIT_FAILURE );
Fail(m, msg) == [m EXCEPT !.err = Append(@, msg), !.status = "exit1"]

reportTypeMismatch(m) == Fail(m, "Type mismatch")

reportIndexOutOfBounds(m) == Fail(m, "Index out of bounds")

requireIntType(v, m) ==
  IF Running(m) /\ v.vtype # "IntType" THEN reportTypeMismatch(m) ELSE m

requireSeqType(v, m) ==
  IF Running(m) /\ v.vtype # "SeqType" THEN reportTypeMismatch(m) ELSE m

\* stands for an operand that was not evaluated
NotEvaluated == [vtype |-> "-", ival |-> 0, sval |-> 0]

Label(m, op, v1, v2) == [m EXCEPT !.last = [stmt |-> @.stmt, op |-> op,
                                            t1 |-> v1.vtype, t2 |-> v2.vtype]]

(***************************************************************************)
(* Sequence (value.c).  Every operation on the machine leaves it as it is  *)
(* once the run is over (exit was called).                                 *)
(***************************************************************************)
\* the heap after makeSequence(); the new object is the last one
makeSequence(h) == Append(h, [seq |-> <<>>, cap |-> INIT_CAP, ref |-> 0, frees |-> 0])

\* free( seq->seq ); free( seq ): the buffer is gone, the object is counted freed
freeSequence(h, p) == [h EXCEPT ![p].seq = <<>>, ![p].cap = 0, ![p].frees = @ + 1]

\* touching an object that was freed is undefined: the run is marked and stops
grabSequence(m, p) ==
  IF ~Running(m) THEN m
  ELSE IF m.heap[p].frees > 0 THEN [m EXCEPT !.status = "undefined"]
  ELSE [m EXCEPT !.heap[p].ref = @ + 1]

releaseSequence(m, p) ==
  IF ~Running(m) THEN m
  ELSE IF m.heap[p].frees > 0 THEN [m EXCEPT !.status = "undefined"]
  ELSE IF m.heap[p].ref - 1 > 0 THEN [m EXCEPT !.heap[p].ref = @ - 1]
  ELSE IF m.heap[p].ref - 1 = 0
  THEN [m EXCEPT !.heap[p].ref = @ - 1, !.heap = freeSequence(@, p)]
  ELSE [m EXCEPT !.heap[p].ref = @ - 1,
                 !.status = "abort",
                 !.err = Append(@, "Assertion `seq->ref == 0' failed.")]

\* an append that grows the buffer once the length is past the capacity
appendInt_late(s, x) ==
  [s EXCEPT !.cap = IF Len(s.seq) > @ THEN @ * DOUBLE_CAP ELSE @,
            !.seq = Append(@, x)]

\* if ( len >= cap ) { cap *= DOUBLE_CAP; realloc } seq[ len ] = x; len++;
appendInt(s, x) ==
  [s EXCEPT !.cap = IF Len(s.seq) >= @ THEN @ * DOUBLE_CAP ELSE @,
            !.seq = Append(@, x)]

RECURSIVE appendAll(_, _)
\* the copy loop started at i = 1
appendAll_fromsecond(s, xs) == IF xs = <<>> THEN s ELSE appendAll(s, Tail(xs))

appendAll(s, xs) ==
  IF xs = <<>> THEN s ELSE appendAll(appendInt(s, Head(xs)), Tail(xs))

\* for ( i < times ) for ( j < seq->len ) append seq[ j ]
RECURSIVE repeatInto(_, _, _)
\* the outer loop run while i <= times
repeatInto_oncemore(s, xs, times) ==
  IF times < 0 THEN s ELSE repeatInto(appendAll(s, xs), xs, times - 1)

repeatInto(s, xs, times) ==
  IF times <= 0 THEN s ELSE repeatInto(appendAll(s, xs), xs, times - 1)

\* the contents of the Sequence object p
elems(m, p) == m.heap[p].seq

\* the object made last: the ret of the function that is building a sequence
newest(m) == Len(m.heap)

\* Sequence *ret = makeSequence();
allocate(m) == IF ~Running(m) THEN m ELSE [m EXCEPT !.heap = makeSequence(@)]

\* the loop that appends the elements of src to ret
copyInto(m, src) ==
  IF ~Running(m) THEN m
  ELSE [m EXCEPT !.heap[newest(m)] = appendAll(@, elems(m, src))]

\* the loops that append the elements of src to ret, times times
repeatedInto(m, src, times) ==
  IF ~Running(m) THEN m
  ELSE [m EXCEPT !.heap[newest(m)] = repeatInto(@, elems(m, src), times)]

\* an append that leaves p as it is and fills a copy of it
appendTo_private(m, p, x) ==
  IF ~Running(m) THEN m
  ELSE [copyInto(allocate(m), p) EXCEPT !.heap[Len(m.heap) + 1] = appendInt(@, x)]

\* if ( len >= cap ) { cap *= DOUBLE_CAP; realloc } seq[ len ] = x; len++; on p
appendTo(m, p, x) == IF ~Running(m) THEN m ELSE [m EXCEPT !.heap[p] = appendInt(@, x)]

\* one int appended to ret, with the capacity test
pushInto(m, x) == appendTo(m, newest(m), x)

\* ret->seq[ 0 ] = x; ret->len++ : no capacity test
setFirst(m, x) == IF ~Running(m) THEN m ELSE [m EXCEPT !.heap[newest(m)].seq = <<x>>]

(***************************************************************************)
(* Environment (value.c).                                                  *)
(***************************************************************************)
makeEnvironment == [vlist |-> <<>>, capacity |-> INIT_CAP]

\* position of the first record called name, Len + 1 when there is none
findVariable(e, name) ==
  IF \E i \in 1..Len(e.vlist) : e.vlist[i].name = name
  THEN CHOOSE i \in 1..Len(e.vlist) :
         /\ e.vlist[i].name = name
         /\ \A j \in 1..(i - 1) : e.vlist[j].name # name
  ELSE Len(e.vlist) + 1

\* a lookup that gives 1 for a name without a record
valueAt_one(e, pos) == IF pos <= Len(e.vlist) THEN e.vlist[pos].val ELSE IntValue(1)

\* the value at position pos, Int 0 past the last record
valueAt(e, pos) == IF pos <= Len(e.vlist) THEN e.vlist[pos].val ELSE IntValue(0)

lookupVariable(e, name) == valueAt(e, findVariable(e, name))

\* if ( v.vtype == SeqType ) releaseSequence( v.sval );
releaseValue(m, v) == IF v.vtype = "SeqType" THEN releaseSequence(m, v.sval) ELSE m

\* a growth that allocates a new array and copies nothing into it
storeAt_emptied(m, pos, name, value) ==
  IF ~Running(m) THEN m
  ELSE IF pos = Len(m.env.vlist) + 1
  THEN [m EXCEPT !.env.capacity = IF Len(m.env.vlist) >= @ THEN @ * DOUBLE_CAP ELSE @,
                 !.env.vlist = IF Len(@) >= m.env.capacity
                               THEN <<[name |-> name, val |-> value]>>
                               ELSE Append(@, [name |-> name, val |-> value])]
  ELSE [m EXCEPT !.env.vlist[pos].val = value]

\* env->vlist[ pos ].val = value, past the last record a new record
storeAt(m, pos, name, value) ==
  IF ~Running(m) THEN m
  ELSE IF pos = Len(m.env.vlist) + 1
  THEN [m EXCEPT !.env.capacity = IF Len(m.env.vlist) >= @ THEN @ * DOUBLE_CAP ELSE @,
                 !.env.vlist = Append(@, [name |-> name, val |-> value])]
  ELSE [m EXCEPT !.env.vlist[pos].val = value]

\* the value a record holds is released before it is overwritten
setVariable(m, name, value) ==
  Only({ storeAt(releaseValue(m, valueAt(m.env, pos)), pos, name, value)
         : pos \in {findVariable(m.env, name)} })

RECURSIVE releaseSlots(_, _)
releaseSlots(m, i) ==
  IF i > Len(m.env.vlist) \/ ~Running(m) THEN m
  ELSE releaseSlots(releaseValue(m, m.env.vlist[i].val), i + 1)

freeEnvironment(m) == releaseSlots(m, 1)

(***************************************************************************)
(* The syntax tree (syntax.h).  Every node has the same four fields: the   *)
(* kind k, an integer n, a name s and the list of sub-trees kids.          *)
(***************************************************************************)
Node(k, n, s, kids) == [k |-> k, n |-> n, s |-> s, kids |-> kids]

makeLiteralInt(val) == Node("LiteralInt", val, "", <<>>)
makeVariable(name) == Node("Variable", 0, name, <<>>)
\* makeAdd( left, right ) is buildSimpleExpr( left, right, evalAdd ), and so
\* is every expression of two operands; eval names the eval function
buildSimpleExpr(expr1, expr2, eval) == Node(eval, 0, "", <<expr1, expr2>>)
makeLenExpr(expr) == Node("Len", 0, "", <<expr>>)
makeSequenceInitializer(len, elist) == Node("SequenceInitializer", len, "", elist)

makePrint(expr) == Node("Print", 0, "", <<expr>>)
makePush(sexpr, vexpr) == Node("Push", 0, "", <<sexpr, vexpr>>)
makeCompound(len, stmtList) == Node("Compound", len, "", stmtList)
makeIf(cond, body) == Node("If", 0, "", <<cond, body>>)
makeWhile(cond, body) == Node("While", 0, "", <<cond, body>>)
\* iexpr is NULL for a plain assignment: kids is then <<expr>> alone
NULL == <<>>
makeAssignment(name, iexpr, expr) ==
  Node("Assignment", 0, name, IF iexpr = NULL THEN <<expr>> ELSE <<expr, iexpr>>)

(***************************************************************************)
(* Expression evaluation (syntax.c).  Every eval returns the value and the *)
(* machine after it; once the machine has left "running" (exit was         *)
(* called) nothing further happens and the value is of no account.         *)
(***************************************************************************)
Result(v, m) == [v |-> v, m |-> m]

\* return (Value){ SeqType, .sval = ret };
returned(m) == Result(SeqValue(newest(m)), m)

RECURSIVE eval(_, _, _)

evalLiteralInt(expr, m, junk) == Result(IntValue(expr.n), m)

evalVariable(expr, m, junk) == Result(lookupVariable(m.env, expr.s), m)

\* v1 = expr1->eval( expr1, env ); v2 = expr2->eval( expr2, env ): the two
\* values and the machine after them, which records op and the operand kinds
operands(expr, op, m, junk) ==
  Only({ IF ~Running(r1.m) THEN [v1 |-> r1.v, v2 |-> r1.v, m |-> r1.m]
         ELSE Only({ [v1 |-> r1.v, v2 |-> r2.v,
                      m |-> IF Running(r2.m) THEN Label(r2.m, op, r1.v, r2.v) ELSE r2.m]
                     : r2 \in {eval(expr.kids[2], r1.m, junk)} })
         : r1 \in {eval(expr.kids[1], m, junk)} })

\* requireIntType( &v1 ); requireIntType( &v2 );
bothInt(o) == [o EXCEPT !.m = requireIntType(o.v2, requireIntType(o.v1, @))]

\* requireSeqType( &v1 ); requireIntType( &v2 );
seqAndInt(o) == [o EXCEPT !.m = requireIntType(o.v2, requireSeqType(o.v1, @))]

evalAdd(expr, m, junk) ==
  Only({ IF ~Running(o.m) THEN Result(o.v2, o.m)
         ELSE IF o.v1.vtype = "IntType" /\ o.v2.vtype = "IntType"
         THEN Result(IntValue(o.v1.ival + o.v2.ival), o.m)
         ELSE IF o.v1.vtype = o.v2.vtype
         THEN returned(releaseSequence(
                         copyInto(releaseSequence(
                                    copyInto(allocate(grabSequence(
                                                        grabSequence(o.m, o.v1.sval),
                                                        o.v2.sval)),
                                             o.v1.sval),
                                    o.v1.sval),
                                  o.v2.sval),
                         o.v2.sval))
         ELSE IF o.v1.vtype = "SeqType"
         THEN returned(releaseSequence(
                         pushInto(copyInto(allocate(grabSequence(o.m, o.v1.sval)),
                                           o.v1.sval),
                                  o.v2.ival),
                         o.v1.sval))
         ELSE returned(releaseSequence(
                         copyInto(setFirst(allocate(grabSequence(o.m, o.v2.sval)),
                                           o.v1.ival),
                                  o.v2.sval),
                         o.v2.sval))
         : o \in {operands(expr, "Add", m, junk)} })

evalSub(expr, m, junk) ==
  Only({ Result(IntValue(o.v1.ival - o.v2.ival), o.m)
         : o \in {bothInt(operands(expr, "Sub", m, junk))} })

\* the sequence seq repeated times times, as both sequence branches of evalMul
mulSequence(m, seq, times) ==
  returned(releaseSequence(repeatedInto(allocate(grabSequence(m, seq)), seq, times), seq))

evalMul(expr, m, junk) ==
  Only({ IF ~Running(o.m) THEN Result(o.v2, o.m)
         ELSE IF o.v1.vtype = "SeqType" THEN mulSequence(o.m, o.v1.sval, ival(o.v2, junk))
         ELSE IF o.v2.vtype = "SeqType" THEN mulSequence(o.m, o.v2.sval, ival(o.v1, junk))
         ELSE IF o.v1.vtype = "SeqType" /\ o.v2.vtype = "SeqType"
         THEN Result(IntValue(0), reportTypeMismatch(o.m))
         ELSE Result(IntValue(o.v1.ival * o.v2.ival), bothInt(o).m)
         : o \in {operands(expr, "Mul", m, junk)} })

\* a division that rounds toward minus infinity
quotient_floor(a, b) == a \div b

\* the quotient of C's int division, which truncates toward zero
quotient(a, b) ==
  IF a >= 0 /\ b > 0 THEN a \div b
  ELSE IF a < 0 /\ b < 0 THEN (-a) \div (-b)
  ELSE IF a < 0 THEN -((-a) \div b)
  ELSE -(a \div (-b))

evalDiv(expr, m, junk) ==
  Only({ IF ~Running(o.m) THEN Result(o.v2, o.m)
         ELSE IF o.v2.ival = 0 THEN Result(IntValue(0), Fail(o.m, "Divide by zero"))
         ELSE Result(IntValue(quotient(o.v1.ival, o.v2.ival)), o.m)
         : o \in {bothInt(operands(expr, "Div", m, junk))} })

\* an evaluation of both operands before the left one is looked at
logical_eager(op, expr, m, junk) ==
  Only({ IF ~Running(o.m) THEN Result(o.v2, o.m)
         ELSE IF (op = "And") = (o.v1.ival = 0) THEN Result(o.v1, o.m)
         ELSE Result(o.v2, o.m)
         : o \in {bothInt(operands(expr, op, m, junk))} })

\* evalAnd and evalOr: the left operand decides (0 for &&, non-zero for ||)
\* or the right one is evaluated and returned
logical(op, expr, m, junk) ==
  Only({ IF ~Running(r1.m) THEN r1
         ELSE IF r1.v.vtype # "IntType" \/ (op = "And") = (r1.v.ival = 0)
         THEN Result(r1.v, requireIntType(r1.v, Label(r1.m, op, r1.v, NotEvaluated)))
         ELSE Only({ IF ~Running(r2.m) THEN r2
                     ELSE Result(r2.v, requireIntType(r2.v, Label(r2.m, op, r1.v, r2.v)))
                     : r2 \in {eval(expr.kids[2],
                                    Label(r1.m, op, r1.v, NotEvaluated), junk)} })
         : r1 \in {eval(expr.kids[1], m, junk)} })

evalAnd(expr, m, junk) == logical("And", expr, m, junk)

evalOr(expr, m, junk) == logical("Or", expr, m, junk)

\* the first index at which two sequences differ, 0 when one is a prefix
firstDiff(s1, s2) ==
  IF \E i \in DOMAIN s1 \cap DOMAIN s2 : s1[i] # s2[i]
  THEN CHOOSE i \in DOMAIN s1 \cap DOMAIN s2 :
         /\ s1[i] # s2[i]
         /\ \A j \in 1..(i - 1) : s1[j] = s2[j]
  ELSE 0

\* a comparison that takes a sequence to be less than itself
lessSequence_orequal(s1, s2, d) ==
  IF d # 0 THEN (IF s1[d] < s2[d] THEN 1 ELSE 0)
  ELSE IF Len(s1) <= Len(s2) THEN 1 ELSE 0

\* the comparison loop of evalLess and what follows it
lessSequence(s1, s2, d) ==
  IF d # 0 THEN (IF s1[d] < s2[d] THEN 1 ELSE 0)
  ELSE IF Len(s1) < Len(s2) THEN 1 ELSE 0

evalLess(expr, m, junk) ==
  Only({ IF ~Running(o.m) THEN Result(o.v2, o.m)
         ELSE IF o.v1.vtype # o.v2.vtype THEN Result(IntValue(0), reportTypeMismatch(o.m))
         ELSE IF o.v1.vtype = "IntType"
         THEN Result(IntValue(IF o.v1.ival < o.v2.ival THEN 1 ELSE 0), o.m)
         ELSE Result(IntValue(lessSequence(elems(o.m, o.v1.sval), elems(o.m, o.v2.sval),
                                           firstDiff(elems(o.m, o.v1.sval),
                                                     elems(o.m, o.v2.sval)))),
                     o.m)
         : o \in {operands(expr, "Less", m, junk)} })

\* a comparison of the common part alone
equalSequence_prefix(s1, s2) == IF firstDiff(s1, s2) # 0 THEN 0 ELSE 1

equalSequence(s1, s2) ==
  IF Len(s1) # Len(s2) THEN 0
  ELSE IF firstDiff(s1, s2) # 0 THEN 0
  ELSE 1

evalEquals(expr, m, junk) ==
  Only({ IF ~Running(o.m) THEN Result(o.v2, o.m)
         ELSE IF o.v1.vtype = "IntType" /\ o.v2.vtype = "IntType"
         THEN Result(IntValue(IF o.v1.ival = o.v2.ival THEN 1 ELSE 0), o.m)
         ELSE IF o.v1.vtype # o.v2.vtype THEN Result(IntValue(0), o.m)
         ELSE Result(IntValue(equalSequence(elems(o.m, o.v1.sval), elems(o.m, o.v2.sval))),
                     o.m)
         : o \in {operands(expr, "Equals", m, junk)} })

\* if ( len >= cap ) { cap *= DOUBLE_CAP; realloc }, before element i is evaluated
reserve(m, seq) ==
  [m EXCEPT !.heap[seq].cap = IF Len(m.heap[seq].seq) >= @ THEN @ * DOUBLE_CAP ELSE @]

\* the loop of evalSequence from element i on; seq is the Sequence being filled
RECURSIVE evalElements(_, _, _, _, _)
evalElements(expr, i, seq, m, junk) ==
  IF i > expr.n THEN Result(SeqValue(seq), m)
  ELSE Only({ IF ~Running(r.m) THEN r
              ELSE IF r.v.vtype # "IntType" THEN Result(r.v, requireIntType(r.v, r.m))
              ELSE evalElements(expr, i + 1, seq,
                                [r.m EXCEPT !.heap[seq].seq = Append(@, r.v.ival)], junk)
              : r \in {eval(expr.kids[i], reserve(m, seq), junk)} })

evalSequence(expr, m, junk) == evalElements(expr, 1, Len(m.heap) + 1, allocate(m), junk)

evalLen(expr, m, junk) ==
  Only({ IF ~Running(r.m) THEN r
         ELSE IF r.v.vtype # "SeqType"
         THEN Result(IntValue(0), requireSeqType(r.v, Label(r.m, "Len", r.v, NotEvaluated)))
         ELSE Result(IntValue(Len(elems(r.m, r.v.sval))),
                     releaseSequence(grabSequence(Label(r.m, "Len", r.v, NotEvaluated),
                                                  r.v.sval),
                                     r.v.sval))
         : r \in {eval(expr.kids[1], m, junk)} })

\* vindex < 0 || vindex >= sequence->len
indexOutOfBounds_inclusive(vindex, len) == vindex < 0 \/ vindex > len

indexOutOfBounds(vindex, len) == vindex < 0 \/ vindex >= len

\* sequence->seq[ vindex ]; past the length the buffer holds no value of the program
elementAt(xs, vindex, junk) == IF vindex + 1 \in DOMAIN xs THEN xs[vindex + 1] ELSE junk

evalSequenceIndex(expr, m, junk) ==
  Only({ IF ~Running(o.m) THEN Result(o.v2, o.m)
         ELSE Only({ IF ~Running(g) THEN Result(IntValue(0), g)
                     ELSE IF indexOutOfBounds(o.v2.ival, Len(elems(g, o.v1.sval)))
                     THEN Result(IntValue(0), reportIndexOutOfBounds(g))
                     ELSE Result(IntValue(elementAt(elems(g, o.v1.sval), o.v2.ival, junk)),
                                 releaseSequence(g, o.v1.sval))
                     : g \in {grabSequence(o.m, o.v1.sval)} })
         : o \in {seqAndInt(operands(expr, "SequenceIndex", m, junk))} })

\* expr->eval( expr, env ): dispatch on the function the node was built with
eval(expr, m, junk) ==
  CASE expr.k = "LiteralInt" -> evalLiteralInt(expr, m, junk)
    [] expr.k = "Variable" -> evalVariable(expr, m, junk)
    [] expr.k = "Add" -> evalAdd(expr, m, junk)
    [] expr.k = "Sub" -> evalSub(expr, m, junk)
    [] expr.k = "Mul" -> evalMul(expr, m, junk)
    [] expr.k = "Div" -> evalDiv(expr, m, junk)
    [] expr.k = "And" -> evalAnd(expr, m, junk)
    [] expr.k = "Or" -> evalOr(expr, m, junk)
    [] expr.k = "Less" -> evalLess(expr, m, junk)
    [] expr.k = "Equals" -> evalEquals(expr, m, junk)
    [] expr.k = "SequenceInitializer" -> evalSequence(expr, m, junk)
    [] expr.k = "Len" -> evalLen(expr, m, junk)
    [] expr.k = "SequenceIndex" -> evalSequenceIndex(expr, m, junk)

(***************************************************************************)
(* stdout: a sequence of bytes.                                            *)
(***************************************************************************)
ZERO == 48
MINUS == 45

\* the bytes printf( "%d" ) writes for n
RECURSIVE decimal(_)
\* a conversion that writes the last digit alone
decimal_lastdigit(n) == <<ZERO + (n % 10)>>

decimal(n) ==
  IF n < 0 THEN <<MINUS>> \o decimal(-n)
  ELSE IF n < 10 THEN <<ZERO + n>>
  ELSE decimal(n \div 10) \o <<ZERO + (n % 10)>>

\* the byte printf( "%c" ) writes for the int c: c converted to unsigned char
byte(c) == c % UCHAR_RANGE

bytes(xs) == [i \in 1..Len(xs) |-> byte(xs[i])]

(***************************************************************************)
(* Statement execution (syntax.c).                                         *)
(***************************************************************************)
Begin(m, kind) == [m EXCEPT !.last = [NoLast EXCEPT !.stmt = kind]]

RECURSIVE execute(_, _, _)

\* the loop of printf( "%c" ) over the sequence p
writeSequence(m, p) ==
  IF ~Running(m) THEN m ELSE [m EXCEPT !.out = @ \o bytes(elems(m, p))]

executePrint(st, m, junk) ==
  Only({ IF ~Running(v.m) THEN v.m
         ELSE IF v.v.vtype = "IntType" THEN [v.m EXCEPT !.out = @ \o decimal(v.v.ival)]
         ELSE releaseSequence(writeSequence(grabSequence(v.m, v.v.sval), v.v.sval),
                              v.v.sval)
         : v \in {eval(st.kids[1], Begin(m, "Print"), junk)} })

RECURSIVE executeFrom(_, _, _, _)
executeFrom(st, i, m, junk) ==
  IF i > st.n \/ ~Running(m) THEN m
  ELSE executeFrom(st, i + 1, execute(st.kids[i], m, junk), junk)

executeCompound(st, m, junk) == executeFrom(st, 1, Begin(m, "Compound"), junk)

executeIf(st, m, junk) ==
  Only({ IF ~Running(result.m) THEN result.m
         ELSE IF result.v.vtype # "IntType" THEN requireIntType(result.v, result.m)
         ELSE IF result.v.ival # 0 THEN execute(st.kids[2], result.m, junk)
         ELSE result.m
         : result \in {eval(st.kids[1], Begin(m, "If"), junk)} })

\* one evaluation of the condition and, when it holds, the body and the loop again
RECURSIVE executeWhile(_, _, _)
\* a loop that executes the body before it evaluates the condition
executeWhile_bodyfirst(st, m, junk) ==
  IF ~Running(m) THEN m
  ELSE Only({ IF ~Running(result.m) THEN result.m
              ELSE IF result.v.vtype # "IntType" THEN requireIntType(result.v, result.m)
              ELSE IF result.v.ival # 0 THEN executeWhile(st, result.m, junk)
              ELSE result.m
              : result \in {eval(st.kids[1],
                                 Begin(execute(st.kids[2], m, junk), "While"), junk)} })

executeWhile(st, m, junk) ==
  IF ~Running(m) THEN m
  ELSE Only({ IF ~Running(result.m) THEN result.m
              ELSE IF result.v.vtype # "IntType" THEN requireIntType(result.v, result.m)
              ELSE IF result.v.ival # 0
              THEN executeWhile(st, execute(st.kids[2], result.m, junk), junk)
              ELSE result.m
              : result \in {eval(st.kids[1], Begin(m, "While"), junk)} })

executePush(st, m, junk) ==
  Only({ IF ~Running(o.m) THEN o.m
         ELSE releaseSequence(appendTo(grabSequence(o.m, o.v1.sval), o.v1.sval, o.v2.ival),
                              o.v1.sval)
         : o \in {seqAndInt(operands(st, "Push", Begin(m, "Push"), junk))} })

\* seq->seq[ index ] = result.ival;
storeElement_index(m, p, index, value) == [m EXCEPT !.heap[p].seq[index + 1] = index]

storeElement(m, p, index, value) == [m EXCEPT !.heap[p].seq[index + 1] = value]

\* if ( result.vtype == SeqType ) grabSequence( result.sval );
grabResult_forgotten(v, m) == m

grabResult(v, m) == IF v.vtype = "SeqType" THEN grabSequence(m, v.sval) ELSE m

\* the branch for an element of a sequence: o.v1 is result and o.v2 the index i
assignElement(name, o, junk) ==
  Only({ IF ~Running(o.m) \/ o.v2.vtype # "IntType" THEN requireIntType(o.v2, o.m)
         ELSE IF s.vtype # "SeqType" THEN requireSeqType(s, o.m)
         ELSE IF indexOutOfBounds(o.v2.ival, Len(elems(o.m, s.sval)))
         THEN reportIndexOutOfBounds(o.m)
         ELSE storeElement(o.m, s.sval, o.v2.ival, ival(o.v1, junk))
         : s \in {lookupVariable(o.m.env, name)} })

\* an assignment that grabs the result after setVariable has released the
\* old value of the name
executeAssignment_releasefirst(st, m, junk) ==
  IF Len(st.kids) = 2
  THEN assignElement(st.s, operands(st, "ElementAssignment", Begin(m, "Assignment"), junk),
                     junk)
  ELSE Only({ IF ~Running(result.m) THEN result.m
              ELSE grabResult(result.v, setVariable(result.m, st.s, result.v))
              : result \in {eval(st.kids[1], Begin(m, "Assignment"), junk)} })

executeAssignment(st, m, junk) ==
  IF Len(st.kids) = 2
  THEN assignElement(st.s, operands(st, "ElementAssignment", Begin(m, "Assignment"), junk),
                     junk)
  ELSE Only({ IF ~Running(result.m) THEN result.m
              ELSE setVariable(grabResult(result.v, result.m), st.s, result.v)
              : result \in {eval(st.kids[1], Begin(m, "Assignment"), junk)} })

\* stmt->execute( stmt, env )
execute(st, m, junk) ==
  CASE st.k = "Print" -> executePrint(st, m, junk)
    [] st.k = "Compound" -> executeCompound(st, m, junk)
    [] st.k = "If" -> executeIf(st, m, junk)
    [] st.k = "While" -> executeWhile(st, m, junk)
    [] st.k = "Push" -> executePush(st, m, junk)
    [] st.k = "Assignment" -> executeAssignment(st, m, junk)

(***************************************************************************)
(* Input tokenization (parse.c).  The program text is a sequence of        *)
(* characters; fp is what is left of the stream, and a character that is   *)
(* put back is the next one read.                                          *)
(***************************************************************************)
MAX_TOKEN == 1023
SINGLE_QUOTE_LENGTH == 1
NEWLINE == 10
TAB == 9
SPACE == 32

EOF == "EOF"

Digits == <<"0", "1", "2", "3", "4", "5", "6", "7", "8", "9">>

\* the characters from ' ' to '~', in the order of their codes (the back
\* quote, which no program here holds, by its name)
Printable ==
  <<" ", "!", "\"", "#", "$", "%", "&", "'", "(", ")", "*", "+", ",", "-", ".", "/">>
  \o Digits \o
  <<":", ";", "<", "=", ">", "?", "@",
    "A", "B", "C", "D", "E", "F", "G", "H", "I", "J", "K", "L", "M",
    "N", "O", "P", "Q", "R", "S", "T", "U", "V", "W", "X", "Y", "Z",
    "[", "\\", "]", "^", "_", "backquote",
    "a", "b", "c", "d", "e", "f", "g", "h", "i", "j", "k", "l", "m",
    "n", "o", "p", "q", "r", "s", "t", "u", "v", "w", "x", "y", "z",
    "{", "|", "}", "~">>

position(ch, chars) == CHOOSE i \in 1..Len(chars) : chars[i] = ch

\* the int a char converts to
code(ch) ==
  IF ch = "\n" THEN NEWLINE
  ELSE IF ch = "\t" THEN TAB
  ELSE SPACE + position(ch, Printable) - 1

\* ch is one of the characters from lo to hi
between(ch, lo, hi) ==
  \E i \in position(lo, Printable)..position(hi, Printable) : Printable[i] = ch

isdigit(ch) == between(ch, "0", "9")

isalpha(ch) == between(ch, "a", "z") \/ between(ch, "A", "Z")

isalnum(ch) == isalpha(ch) \/ isdigit(ch)

isspace(ch) == ch \in {" ", "\t", "\n", "\r", "\f"}

\* the C string of a token
RECURSIVE text(_)
text(tok) == IF tok = <<>> THEN "" ELSE Head(tok) \o text(Tail(tok))

fgetc(f) == IF f = <<>> THEN EOF ELSE Head(f)

\* the stream after fgetc
advance(f) == IF f = <<>> THEN f ELSE Tail(f)

ungetc(ch, f) == <<ch>> \o f

\* what a parsing function hands back: the token or the tree it built, the
\* stream and lineCount as it leaves them, and the message it exited with
Parsed(tok, tree, f, line) == [tok |-> tok, tree |-> tree, fp |-> f, line |-> line, err |-> ""]

Exited(f, line, msg) == [tok |-> <<>>, tree |-> <<>>, fp |-> f, line |-> line, err |-> msg]

Failed(r) == r.err # ""

\* the decimal numeral printf( "%d" ) writes for a line number
RECURSIVE numeral(_)
numeral(n) == IF n < 10 THEN Digits[n + 1] ELSE numeral(n \div 10) \o Digits[(n % 10) + 1]

lineMessage(line, msg) == "line " \o numeral(line) \o ": " \o msg

syntaxError(r) == Exited(r.fp, r.line, lineMessage(r.line, "syntax error"))

\* the token with ch added, <<>> when it is too long
addToToken(ch, token) == IF Len(token) >= MAX_TOKEN THEN <<>> ELSE Append(token, ch)

tokenTooLong(f, line) == Exited(f, line, lineMessage(line, "token too long"))

\* while ( ( ch = fgetc( fp ) ) != EOF && ch != '\n' ): the stream at the
\* character that ends the loop
RECURSIVE skipLine(_)
skipLine(f) == IF fgetc(f) # EOF /\ fgetc(f) # "\n" THEN skipLine(advance(f)) ELSE f

\* if ( ch == '\n' ) lineCount++;
countLine(ch, line) == IF ch = "\n" THEN line + 1 ELSE line

\* Skip whitespace and comments: the first character of the token (or EOF),
\* the stream after it and lineCount
RECURSIVE skipBlanks(_, _)
skipBlanks(f, line) ==
  IF fgetc(f) = "#"
  THEN Only({ skipBlanks(advance(e), countLine(fgetc(e), line))
              : e \in {skipLine(advance(f))} })
  ELSE IF isspace(fgetc(f)) THEN skipBlanks(advance(f), countLine(fgetc(f), line))
  ELSE [ch |-> fgetc(f), fp |-> advance(f), line |-> line]

\* the stream after a character read one too far was put back
putBack(f) == IF fgetc(f) # EOF THEN ungetc(fgetc(f), advance(f)) ELSE advance(f)

\* the rest of an identifier (alnum = TRUE) or of an integer
RECURSIVE scanWord(_, _, _, _)
\* a tokenizer for which a - is a token of its own, whatever follows it
scanWord_minusalone(alnum, token, f, line) ==
  IF token = <<"-">> THEN Parsed(token, <<>>, f, line)
  ELSE IF \/ alnum /\ (isalnum(fgetc(f)) \/ fgetc(f) = "_")
          \/ ~alnum /\ isdigit(fgetc(f))
  THEN IF addToToken(fgetc(f), token) = <<>> THEN tokenTooLong(advance(f), line)
       ELSE scanWord(alnum, addToToken(fgetc(f), token), advance(f), line)
  ELSE Parsed(token, <<>>, putBack(f), line)

scanWord(alnum, token, f, line) ==
  IF (alnum /\ (isalnum(fgetc(f)) \/ fgetc(f) = "_")) \/ (~alnum /\ isdigit(fgetc(f)))
  THEN IF addToToken(fgetc(f), token) = <<>> THEN tokenTooLong(advance(f), line)
       ELSE scanWord(alnum, addToToken(fgetc(f), token), advance(f), line)
  ELSE Parsed(token, <<>>, putBack(f), line)

\* the character an escape sequence stands for
escaped(ch) == IF ch = "n" THEN "\n" ELSE IF ch = "t" THEN "\t" ELSE ch

\* the characters of a quoted string up to the matching close quote; ch is
\* the character read and f the stream after it
RECURSIVE scanString(_, _, _, _, _, _)
\* a tokenizer that takes every escaped character for itself
scanString_lenient(quote, escape, token, ch, f, line) ==
  IF ch = quote /\ ~escape
  THEN IF addToToken(quote, token) = <<>> THEN tokenTooLong(f, line)
       ELSE IF quote = "'" /\ Len(token) + 1 # SINGLE_QUOTE_LENGTH + 1 + 1
       THEN Exited(f, line, lineMessage(line, "Invalid single-quoted string"))
       ELSE Parsed(addToToken(quote, token), <<>>, f, line)
  ELSE IF ch = EOF \/ ch = "\n"
  THEN Exited(f, line, lineMessage(line, "invalid string literal."))
  ELSE IF ~escape /\ ch = "\\"
  THEN scanString(quote, TRUE, token, fgetc(f), advance(f), line)
  ELSE IF addToToken(ch, token) = <<>> THEN tokenTooLong(f, line)
  ELSE scanString(quote, FALSE, addToToken(IF escape THEN escaped(ch) ELSE ch, token),
                  fgetc(f), advance(f), line)

scanString(quote, escape, token, ch, f, line) ==
  IF ch = quote /\ ~escape
  THEN IF addToToken(quote, token) = <<>> THEN tokenTooLong(f, line)
       ELSE IF quote = "'" /\ Len(token) + 1 # SINGLE_QUOTE_LENGTH + 1 + 1
       THEN Exited(f, line, lineMessage(line, "Invalid single-quoted string"))
       ELSE Parsed(addToToken(quote, token), <<>>, f, line)
  ELSE IF ch = EOF \/ ch = "\n"
  THEN Exited(f, line, lineMessage(line, "invalid string literal."))
  ELSE IF ~escape /\ ch = "\\"
  THEN scanString(quote, TRUE, token, fgetc(f), advance(f), line)
  ELSE IF escape /\ ch \notin {"n", "t", "\"", "\\"}
  THEN Exited(f, line, lineMessage(line, "Invalid escape sequence \"\\" \o ch \o "\""))
  ELSE IF addToToken(ch, token) = <<>> THEN tokenTooLong(f, line)
  ELSE scanString(quote, FALSE, addToToken(IF escape THEN escaped(ch) ELSE ch, token),
                  fgetc(f), advance(f), line)

\* a tokenizer that does not put back the character it read after an operator
tokenFrom_swallowing(ch, f, line) ==
  IF ch = EOF THEN Parsed(<<>>, <<>>, f, line)
  ELSE IF isalpha(ch) \/ ch = "_" THEN scanWord(TRUE, <<ch>>, f, line)
  ELSE IF ch = "-" \/ isdigit(ch) THEN scanWord(FALSE, <<ch>>, f, line)
  ELSE IF ch = "\"" \/ ch = "'"
  THEN scanString(ch, FALSE, <<ch>>, fgetc(f), advance(f), line)
  ELSE IF \/ ch = "=" /\ fgetc(f) = "="
          \/ ch = "&" /\ fgetc(f) = "&"
          \/ ch = "|" /\ fgetc(f) = "|"
  THEN Parsed(<<ch, fgetc(f)>>, <<>>, advance(f), line)
  ELSE Parsed(<<ch>>, <<>>, advance(f), line)

\* the token that starts with the character ch; f is the stream after ch
tokenFrom(ch, f, line) ==
  IF ch = EOF THEN Parsed(<<>>, <<>>, f, line)
  ELSE IF isalpha(ch) \/ ch = "_" THEN scanWord(TRUE, <<ch>>, f, line)
  ELSE IF ch = "-" \/ isdigit(ch) THEN scanWord(FALSE, <<ch>>, f, line)
  ELSE IF ch = "\"" \/ ch = "'"
  THEN scanString(ch, FALSE, <<ch>>, fgetc(f), advance(f), line)
  ELSE IF \/ ch = "=" /\ fgetc(f) = "="
          \/ ch = "&" /\ fgetc(f) = "&"
          \/ ch = "|" /\ fgetc(f) = "|"
  THEN Parsed(<<ch, fgetc(f)>>, <<>>, advance(f), line)
  ELSE Parsed(<<ch>>, <<>>, putBack(f), line)

\* parseToken: the next token of the stream; tok = <<>> without a message
\* is the false it returns at the end of the input
parseToken(f, line) ==
  Only({ tokenFrom(b.ch, b.fp, b.line) : b \in {skipBlanks(f, line)} })

expectToken(f, line) ==
  Only({ IF ~Failed(t) /\ t.tok = <<>> THEN syntaxError(t) ELSE t
         : t \in {parseToken(f, line)} })

requireToken(target, f, line) ==
  Only({ IF ~Failed(t) /\ text(t.tok) # target THEN syntaxError(t) ELSE t
         : t \in {expectToken(f, line)} })

isIdentifier(tok) ==
  /\ isalpha(tok[1]) \/ tok[1] = "_"
  /\ \A i \in 2..Len(tok) : isalnum(tok[i]) \/ tok[i] = "_"
  /\ Len(tok) <= MAX_VAR_NAME
  /\ text(tok) \notin {"if", "while", "print", "push", "len"}

\* a parser for which [ is not an infix operator
isInfixOperator_nobracket(tok) ==
  text(tok) \in {"+", "-", "*", "/", "<", "==", "&&", "||"}

isInfixOperator(tok) ==
  text(tok) \in {"+", "-", "*", "/", "<", "==", "&&", "||", "["}

(***************************************************************************)
(* Parsing (parse.c).                                                      *)
(***************************************************************************)
\* sscanf( tok, "%d%n", &val, &n ) on a token that is a sign or a digit
\* followed by digits: the value of the digits from position i on
RECURSIVE digitsValue(_, _, _)
digitsValue(tok, i, acc) ==
  IF i > Len(tok) THEN acc
  ELSE digitsValue(tok, i + 1, acc * 10 + (position(tok[i], Digits) - 1))

\* whether sscanf converts one int that spans the whole token
scansInt(tok) == IF tok[1] = "-" THEN Len(tok) > 1 ELSE TRUE

intOf(tok) == IF tok[1] = "-" THEN -digitsValue(tok, 2, 0) ELSE digitsValue(tok, 1, 0)

\* the literal ints a string token lowers to: the characters after the
\* opening quote up to the next '"'
RECURSIVE stringElements(_, _)
stringElements(tok, i) ==
  IF tok[i] = "\"" THEN <<>>
  ELSE <<makeLiteralInt(code(tok[i]))>> \o stringElements(tok, i + 1)

\* the kind of expression each infix operator makes
infixKind(op) ==
  CASE op = "+" -> "Add"
    [] op = "-" -> "Sub"
    [] op = "*" -> "Mul"
    [] op = "/" -> "Div"
    [] op = "&&" -> "And"
    [] op = "||" -> "Or"
    [] op = "<" -> "Less"
    [] op = "==" -> "Equals"
    [] op = "[" -> "SequenceIndex"


\* a parser that hands the new operator to the right operand of left
makeInfix_rightnested(op, left, right) ==
  IF left.k \in {"Add", "Sub", "Mul", "Div", "And", "Or", "Less", "Equals", "SequenceIndex"}
  THEN Node(left.k, 0, "", <<left.kids[1],
                             Node(infixKind(op), 0, "", <<left.kids[2], right>>)>>)
  ELSE Node(infixKind(op), 0, "", <<left, right>>)

\* the if-chain of parseExpr: left = makeAdd( left, right ), and so on
makeInfix(op, left, right) == buildSimpleExpr(left, right, infixKind(op))

RECURSIVE parseExpr(_, _, _)
RECURSIVE parseTerm(_, _, _)
RECURSIVE parseStmt(_, _, _)

\* parseExpr( expectToken( tok, fp ), fp ), t being what expectToken hands back
parseExprAt(t) == IF Failed(t) THEN t ELSE parseExpr(t.tok, t.fp, t.line)

parseTermAt(t) == IF Failed(t) THEN t ELSE parseTerm(t.tok, t.fp, t.line)

parseStmtAt(t) == IF Failed(t) THEN t ELSE parseStmt(t.tok, t.fp, t.line)

\* requireToken( target, fp ) after the tree of e was parsed: the tree is kept
requireAfter(target, e) ==
  IF Failed(e) THEN e
  ELSE Only({ IF Failed(c) THEN c ELSE Parsed(<<>>, e.tree, c.fp, c.line)
              : c \in {requireToken(target, e.fp, e.line)} })

\* expr = parseExpr( expectToken( tok, fp ), fp ); requireToken( target, fp );
exprThen(target, f, line) == requireAfter(target, parseExprAt(expectToken(f, line)))

\* the while loop of the sequence literal; cur is currentToken
RECURSIVE parseElements(_, _, _, _)

parseElementsAt(elist, t) ==
  IF Failed(t) THEN t ELSE parseElements(t.tok, elist, t.fp, t.line)

parseElements(cur, elist, f, line) ==
  IF Len(elist) > MAX_TOKEN \/ text(cur) = "]"
  THEN Parsed(<<>>, makeSequenceInitializer(Len(elist), elist), f, line)
  ELSE Only({ IF Failed(newExpr) THEN newExpr
              ELSE Only({ IF Failed(t) THEN t
                          ELSE IF text(t.tok) # "]" /\ text(t.tok) # ","
                          THEN syntaxError(t)
                          ELSE IF text(t.tok) # "]"
                          THEN parseElementsAt(Append(elist, newExpr.tree),
                                               expectToken(t.fp, t.line))
                          ELSE parseElementsAt(Append(elist, newExpr.tree), t)
                          : t \in {expectToken(newExpr.fp, newExpr.line)} })
              : newExpr \in {parseExpr(cur, f, line)} })

parseTerm(tok, f, line) ==
  IF text(tok) = "(" THEN exprThen(")", f, line)
  ELSE IF tok[1] = "-" \/ isdigit(tok[1])
  THEN IF ~scansInt(tok) THEN syntaxError(Parsed(tok, <<>>, f, line))
       ELSE Parsed(<<>>, makeLiteralInt(intOf(tok)), f, line)
  ELSE IF tok[1] = "'" THEN Parsed(<<>>, makeLiteralInt(code(tok[2])), f, line)
  ELSE IF isIdentifier(tok) THEN Parsed(<<>>, makeVariable(text(tok)), f, line)
  ELSE IF tok[1] = "["
  THEN parseElementsAt(<<>>, expectToken(f, line))
  ELSE IF text(tok) = "len"
  THEN Only({ IF Failed(len) THEN len
              ELSE Parsed(<<>>, makeLenExpr(len.tree), len.fp, len.line)
              : len \in {parseExprAt(expectToken(f, line))} })
  ELSE IF tok[1] = "\""
  THEN Only({ Parsed(<<>>, makeSequenceInitializer(Len(elist), elist), f, line)
              : elist \in {stringElements(tok, 2)} })
  ELSE syntaxError(Parsed(tok, <<>>, f, line))

\* the while loop of parseExpr and what follows it; op is the token after a
\* term: an infix operator, or what ends the expression
RECURSIVE parseOperators(_, _, _)
\* a parser that leaves the stream after the token that ends the expression
parseOperators_consuming(left, f, line) ==
  Only({ IF Failed(op) THEN op
         ELSE IF isInfixOperator(op.tok)
         THEN Only({ IF Failed(right) THEN right
                     ELSE parseOperators(makeInfix(text(op.tok), left, right.tree),
                                         right.fp, right.line)
                     : right \in {IF text(op.tok) = "["
                                  THEN requireAfter("]", parseTermAt(expectToken(op.fp,
                                                                                 op.line)))
                                  ELSE parseTermAt(expectToken(op.fp, op.line))} })
         ELSE IF text(op.tok) \notin {";", ")", "]", ","} THEN syntaxError(op)
         ELSE Parsed(<<>>, left, op.fp, op.line)
         : op \in {expectToken(f, line)} })

parseOperators(left, f, line) ==
  Only({ IF Failed(op) THEN op
         ELSE IF isInfixOperator(op.tok)
         THEN Only({ IF Failed(right) THEN right
                     ELSE parseOperators(makeInfix(text(op.tok), left, right.tree),
                                         right.fp, right.line)
                     : right \in {IF text(op.tok) = "["
                                  THEN requireAfter("]", parseTermAt(expectToken(op.fp,
                                                                                 op.line)))
                                  ELSE parseTermAt(expectToken(op.fp, op.line))} })
         ELSE IF text(op.tok) \notin {";", ")", "]", ","} THEN syntaxError(op)
         ELSE Parsed(<<>>, left, ungetc(op.tok[1], op.fp), op.line)
         : op \in {expectToken(f, line)} })

parseExpr(tok, f, line) ==
  Only({ IF Failed(left) THEN left ELSE parseOperators(left.tree, left.fp, left.line)
         : left \in {parseTerm(tok, f, line)} })

\* the while loop of a compound statement
RECURSIVE parseBlock(_, _, _)
\* a parser that hands over the statements of a block it has parsed when the
\* next one has an error, and leaves the stream before that one
parseBlock_partial(stmtList, f, line) ==
  Only({ IF Failed(t) THEN t
         ELSE IF text(t.tok) = "}"
         THEN Parsed(<<>>, makeCompound(Len(stmtList), stmtList), t.fp, t.line)
         ELSE Only({ IF Failed(s)
                     THEN Parsed(<<>>, makeCompound(Len(stmtList), stmtList), f, line)
                     ELSE parseBlock(Append(stmtList, s.tree), s.fp, s.line)
                     : s \in {parseStmt(t.tok, t.fp, t.line)} })
         : t \in {expectToken(f, line)} })

parseBlock(stmtList, f, line) ==
  Only({ IF Failed(t) THEN t
         ELSE IF text(t.tok) = "}"
         THEN Parsed(<<>>, makeCompound(Len(stmtList), stmtList), t.fp, t.line)
         ELSE Only({ IF Failed(s) THEN s
                     ELSE parseBlock(Append(stmtList, s.tree), s.fp, s.line)
                     : s \in {parseStmt(t.tok, t.fp, t.line)} })
         : t \in {expectToken(f, line)} })

\* requireToken( "(" ); cond; requireToken( ")" ); body; return makeIf( cond, body )
\* or return makeWhile( cond, body ), as tok says
parseGuarded(tok, f, line) ==
  Only({ IF Failed(o) THEN o
         ELSE Only({ IF Failed(cond) THEN cond
                     ELSE Only({ IF Failed(body) THEN body
                                 ELSE Parsed(<<>>,
                                             IF text(tok) = "if"
                                             THEN makeIf(cond.tree, body.tree)
                                             ELSE makeWhile(cond.tree, body.tree),
                                             body.fp, body.line)
                                 : body \in {parseStmtAt(expectToken(cond.fp, cond.line))} })
                     : cond \in {exprThen(")", o.fp, o.line)} })
         : o \in {requireToken("(", f, line)} })

\* an expression, the token target, and return makeAssignment( name, iexpr, expr )
parseAssigned(name, iexpr, f, line) ==
  Only({ IF Failed(expr) THEN expr
         ELSE Parsed(<<>>, makeAssignment(name, iexpr, expr.tree), expr.fp, expr.line)
         : expr \in {exprThen(";", f, line)} })

parseStmt(tok, f, line) ==
  IF text(tok) = "{" THEN parseBlock(<<>>, f, line)
  ELSE IF text(tok) = "print"
  THEN Only({ IF Failed(arg) THEN arg
              ELSE Parsed(<<>>, makePrint(arg.tree), arg.fp, arg.line)
              : arg \in {exprThen(";", f, line)} })
  ELSE IF text(tok) = "if" \/ text(tok) = "while" THEN parseGuarded(tok, f, line)
  ELSE IF text(tok) = "push"
  THEN Only({ IF Failed(sexpr) THEN sexpr
              ELSE Only({ IF Failed(vexpr) THEN vexpr
                          ELSE Parsed(<<>>, makePush(sexpr.tree, vexpr.tree),
                                      vexpr.fp, vexpr.line)
                          : vexpr \in {exprThen(";", sexpr.fp, sexpr.line)} })
              : sexpr \in {exprThen(",", f, line)} })
  ELSE IF isIdentifier(tok)
  THEN Only({ IF Failed(t) THEN t
              ELSE IF text(t.tok) = "["
              THEN Only({ IF Failed(eq) THEN eq
                          ELSE parseAssigned(text(tok), eq.tree, eq.fp, eq.line)
                          : eq \in {requireAfter("=", exprThen("]", t.fp, t.line))} })
              ELSE IF text(t.tok) = "=" THEN parseAssigned(text(tok), NULL, t.fp, t.line)
              ELSE syntaxError(t)
              : t \in {expectToken(f, line)} })
  ELSE syntaxError(Parsed(tok, <<>>, f, line))

(***************************************************************************)
(* The machine as the state variables hold it.                             *)
(***************************************************************************)
Machine == [heap |-> heap, env |-> env, out |-> out, err |-> err,
            status |-> status, last |-> last]

Becomes(m) ==
  /\ heap' = m.heap
  /\ env' = m.env
  /\ out' = m.out
  /\ err' = m.err
  /\ status' = m.status
  /\ last' = m.last

NoStmt == Node("None", 0, "", <<>>)

(***************************************************************************)
(* The statements the evaluator is driven with.                            *)
(***************************************************************************)
Lit(es) == makeSequenceInitializer(Len(es), [i \in 1..Len(es) |-> makeLiteralInt(es[i])])

Atoms == {makeLiteralInt(-1), makeLiteralInt(0), makeLiteralInt(3),
          Lit(<<5, 6, 7>>),
          makeVariable("a"), makeVariable("b")}

Binary(kinds) == {buildSimpleExpr(x, y, k) : k \in kinds, x \in Atoms, y \in Atoms}

\* what is printed, and what is assigned to a variable
PrintExprs == Atoms \cup Binary({"Add", "Mul", "SequenceIndex", "Equals", "Less"})
                    \cup {makeLenExpr(x) : x \in Atoms}

AssignExprs == Atoms \cup Binary({"Add", "Mul", "SequenceIndex"})

\* whether executing st can read the int of a value that holds a sequence
RECURSIVE Reinterprets(_)
Reinterprets(st) ==
  \/ st.k = "Mul"
  \/ st.k = "Assignment" /\ Len(st.kids) = 2
  \/ \E i \in 1..Len(st.kids) : Reinterprets(st.kids[i])

\* the outcomes of those reads that a run of st is explored with
Outcomes(st) == IF Reinterprets(st) THEN PtrBits ELSE {CHOOSE junk \in PtrBits : TRUE}

(***************************************************************************)
(* The driver (interpret.c) with the statement handed over as a tree:      *)
(* one action per kind of top-level statement, and the end of the input.   *)
(***************************************************************************)
Init ==
  /\ heap = <<>>
  /\ env = makeEnvironment
  /\ out = <<>>
  /\ err = <<>>
  /\ status = "running"
  /\ last = NoLast
  /\ nstmts = 0
  /\ input = <<>>
  /\ fp = <<>>
  /\ lineCount = 1
  /\ stmt = NoStmt
  /\ pc = "tree"

\* stmt->execute( stmt, env ); stmt->destroy( stmt );
Run(st) ==
  /\ status = "running"
  /\ nstmts < MaxStmts
  /\ \E junk \in Outcomes(st) : Becomes(execute(st, Machine, junk))
  /\ nstmts' = nstmts + 1
  /\ UNCHANGED <<input, fp, lineCount, stmt, pc>>

PrintStmt == \E e \in PrintExprs : Run(makePrint(e))

AssignStmt ==
  \/ \E e \in AssignExprs : Run(makeAssignment("a", NULL, e))
  \/ Run(makeAssignment("b", NULL, makeVariable("a")))

ElementAssignStmt == \E i \in Atoms, x \in Atoms : Run(makeAssignment("a", i, x))

PushStmt == \E x \in Atoms, y \in Atoms : Run(makePush(x, y))

\* return EXIT_SUCCESS;
exitSuccess(m) == IF Running(m) THEN [m EXCEPT !.status = "exit0"] ELSE m

\* parseToken returned false: fclose, freeEnvironment, return EXIT_SUCCESS
EndOfInput ==
  /\ status = "running"
  /\ Becomes(exitSuccess(freeEnvironment(Begin(Machine, "EndOfInput"))))
  /\ UNCHANGED <<nstmts, input, fp, lineCount, stmt, pc>>

Next == PrintStmt \/ AssignStmt \/ ElementAssignStmt \/ PushStmt \/ EndOfInput

Spec == Init /\ [][Next]_vars

(***************************************************************************)
(* The driver (interpret.c) reading a program text: main's loop parses one *)
(* statement, executes it and destroys it, until parseToken finds the end  *)
(* of the input.                                                           *)
(***************************************************************************)
\* number of infix operators in the expressions of the generated programs
MaxOps == 2

Terms == {<<"2">>, <<"3">>, <<"4">>}

Operators == {<<"+">>, <<"-">>, <<"*">>, <<"/">>, <<"<">>,
              <<"=", "=">>, <<"&", "&">>, <<"|", "|">>, <<"[">>}

\* the text of  op1 t1 ... opn tn  from operator i on
RECURSIVE ChainTail(_, _, _)
ChainTail(ts, ops, i) ==
  IF i > Len(ops) THEN <<>>
  ELSE <<" ">> \o ops[i] \o <<" ">> \o ts[i + 1]
       \o (IF ops[i] = <<"[">> THEN <<" ", "]">> ELSE <<>>)
       \o ChainTail(ts, ops, i + 1)

\* print t0 op1 t1 ... opn tn;
ChainText(ts, ops) ==
  <<"p", "r", "i", "n", "t", " ">> \o ts[1] \o ChainTail(ts, ops, 1) \o <<";", "\n">>

Chains ==
  UNION {{[ts |-> ts, ops |-> ops, text |-> ChainText(ts, ops)] :
            ts \in [1..(n + 1) -> Terms], ops \in [1..n -> Operators]} : n \in 0..MaxOps}

\* programs with the other statements, literals and a comment
Scenarios ==
  {<<"a", " ", "=", " ", "[", " ", "1", ",", " ", "2", ",", " ", "3",
     " ", "]", ";", " ", "b", " ", "=", " ", "[", "4", ",", "5", "]",
     ";", " ", "p", "r", "i", "n", "t", " ", "l", "e", "n", " ", "(",
     "a", " ", "+", " ", "b", ")", ";", "\n">>,
   <<"s", " ", "=", " ", "\"", "H", "i", "\"", ";", " ", "p", "u", "s",
     "h", " ", "s", ",", " ", "'", "!", "'", ";", " ", "p", "r", "i",
     "n", "t", " ", "s", ";", "\n">>,
   <<"a", " ", "=", " ", "[", "1", "0", ",", "2", "0", ",", "3", "0",
     "]", ";", " ", "a", "[", "1", "]", " ", "=", " ", "9", "9", ";",
     " ", "p", "r", "i", "n", "t", " ", "a", "[", "0", "]", ";", " ",
     "p", "r", "i", "n", "t", " ", "a", "[", "1", "]", ";", " ", "p",
     "r", "i", "n", "t", " ", "a", "[", "2", "]", ";", "\n">>,
   <<"i", "f", " ", "(", "1", " ", "<", " ", "2", ")", " ", "p", "r",
     "i", "n", "t", " ", "7", ";", "\n">>,
   <<"i", " ", "=", " ", "0", ";", " ", "w", "h", "i", "l", "e", " ",
     "(", "i", " ", "<", " ", "3", ")", " ", "{", " ", "p", "r", "i",
     "n", "t", " ", "i", ";", " ", "i", " ", "=", " ", "i", " ", "+",
     " ", "1", ";", " ", "}", "\n">>,
   <<"p", "r", "i", "n", "t", " ", "1", " ", "/", " ", "0", ";", "\n">>,
   <<"a", " ", "=", " ", "[", "1", ",", "2", "]", ";", " ", "p", "r",
     "i", "n", "t", " ", "a", "[", "5", "]", ";", "\n">>,
   <<"p", "r", "i", "n", "t", " ", "[", "1", "]", " ", "+", " ", "2",
     ";", "\n">>,
   <<"#", " ", "a", " ", "c", "o", "m", "m", "e", "n", "t", "\n", "p",
     "r", "i", "n", "t", " ", "2", " ", "-", "3", ";", "\n">>}

\* statements that parse, by name
Statements ==
   \* print 7;
  [print7 |-> <<"p", "r", "i", "n", "t", " ", "7", ";">>,
   \* a = [1,2];
   bind |-> <<"a", " ", "=", " ", "[", "1", ",", "2", "]", ";">>,
   \* print a;
   show |-> <<"p", "r", "i", "n", "t", " ", "a", ";">>,
   \* push a, 3;
   grow |-> <<"p", "u", "s", "h", " ", "a", ",", " ", "3", ";">>,
   \* { print 1; print 2; }
   block |-> <<"{", " ", "p", "r", "i", "n", "t", " ", "1", ";", " ", "p", "r", "i", "n",
               "t", " ", "2", ";", " ", "}">>,
   \* print [5,6,7][1];
   indexTerm |-> <<"p", "r", "i", "n", "t", " ", "[", "5", ",", "6", ",", "7", "]", "[",
                   "1", "]", ";">>,
   \* print [5,6,7][(1 + 1)];
   indexParen |-> <<"p", "r", "i", "n", "t", " ", "[", "5", ",", "6", ",", "7", "]", "[",
                    "(", "1", " ", "+", " ", "1", ")", "]", ";">>,
   \* print [5,6,7][a];
   indexVar |-> <<"p", "r", "i", "n", "t", " ", "[", "5", ",", "6", ",", "7", "]", "[",
                  "a", "]", ";">>,
   \* print 1 / 0;
   divide |-> <<"p", "r", "i", "n", "t", " ", "1", " ", "/", " ", "0", ";">>]

\* statements the tokenizer or the parser rejects, by name
Rejected ==
   \* print [5,6,7][1 + 1];
  [indexSum |-> <<"p", "r", "i", "n", "t", " ", "[", "5", ",", "6", ",", "7", "]", "[",
                  "1", " ", "+", " ", "1", "]", ";">>,
   \* print [5,6,7][1;
   unclosed |-> <<"p", "r", "i", "n", "t", " ", "[", "5", ",", "6", ",", "7", "]", "[",
                  "1", ";">>,
   \* print 2 2;
   twoTerms |-> <<"p", "r", "i", "n", "t", " ", "2", " ", "2", ";">>,
   \* print ;
   noExpr |-> <<"p", "r", "i", "n", "t", " ", ";">>,
   \* print "\q";
   badEscape |-> <<"p", "r", "i", "n", "t", " ", "\"", "\\", "q", "\"", ";">>,
   \* print "ab
   unterminated |-> <<"p", "r", "i", "n", "t", " ", "\"", "a", "b">>,
   \* print 'ab';
   longChar |-> <<"p", "r", "i", "n", "t", " ", "'", "a", "b", "'", ";">>,
   \* 7 = a;
   noStatement |-> <<"7", " ", "=", " ", "a", ";">>,
   \* print 1
   cutOff |-> <<"p", "r", "i", "n", "t", " ", "1">>,
   \* print [1 2];
   noComma |-> <<"p", "r", "i", "n", "t", " ", "[", "1", " ", "2", "]", ";">>,
   \* print [1;2];
   elementSemi |-> <<"p", "r", "i", "n", "t", " ", "[", "1", ";", "2", "]", ";">>,
   \* print [1,,2];
   doubleComma |-> <<"p", "r", "i", "n", "t", " ", "[", "1", ",", ",", "2", "]", ";">>,
   \* print [,1];
   leadingComma |-> <<"p", "r", "i", "n", "t", " ", "[", ",", "1", "]", ";">>,
   \* print [1,2
   unclosedLit |-> <<"p", "r", "i", "n", "t", " ", "[", "1", ",", "2">>,
   \* print 1 }
   braceAfter |-> <<"p", "r", "i", "n", "t", " ", "1", " ", "}">>,
   \* print 1 & 2;
   loneAmp |-> <<"p", "r", "i", "n", "t", " ", "1", " ", "&", " ", "2", ";">>,
   \* print 1 |2;
   lonePipe |-> <<"p", "r", "i", "n", "t", " ", "1", " ", "|", "2", ";">>,
   \* print 1 =2;
   loneEq |-> <<"p", "r", "i", "n", "t", " ", "1", " ", "=", "2", ";">>,
   \* print '';
   emptyChar |-> <<"p", "r", "i", "n", "t", " ", "'", "'", ";">>,
   \* print '\q';
   charEscape |-> <<"p", "r", "i", "n", "t", " ", "'", "\\", "q", "'", ";">>,
   \* print a -1;
   minusDigit |-> <<"p", "r", "i", "n", "t", " ", "a", " ", "-", "1", ";">>,
   \* print a-1;
   minusTight |-> <<"p", "r", "i", "n", "t", " ", "a", "-", "1", ";">>,
   \* { print 1; print 2 2; }
   blockSyntax |-> <<"{", " ", "p", "r", "i", "n", "t", " ", "1", ";", " ", "p", "r", "i",
                     "n", "t", " ", "2", " ", "2", ";", " ", "}">>,
   \* if (1) { print 1; print "ab
   ifLexical |-> <<"i", "f", " ", "(", "1", ")", " ", "{", " ", "p", "r", "i", "n", "t",
                   " ", "1", ";", " ", "p", "r", "i", "n", "t", " ", "\"", "a", "b">>,
   \* while (1) { push a, 1; a = ; }
   whileSyntax |-> <<"w", "h", "i", "l", "e", " ", "(", "1", ")", " ", "{", " ", "p", "u",
                     "s", "h", " ", "a", ",", " ", "1", ";", " ", "a", " ", "=", " ", ";",
                     " ", "}">>]

\* whole programs, by name: each is one line of statements
Examples ==
   \* print [];
  [emptyLit |-> <<"p", "r", "i", "n", "t", " ", "[", "]", ";", "\n">>,
   \* print [1 + 2, 3];
   sumLit |-> <<"p", "r", "i", "n", "t", " ", "[", "1", " ", "+", " ", "2", ",", " ", "3",
                "]", ";", "\n">>,
   \* print [1,];
   trailing |-> <<"p", "r", "i", "n", "t", " ", "[", "1", ",", "]", ";", "\n">>,
   \* print (1 + 2) * 3;
   paren |-> <<"p", "r", "i", "n", "t", " ", "(", "1", " ", "+", " ", "2", ")", " ", "*",
               " ", "3", ";", "\n">>,
   \* print 1==1&&0||1;
   tightOps |-> <<"p", "r", "i", "n", "t", " ", "1", "=", "=", "1", "&", "&", "0", "|", "|",
                  "1", ";", "\n">>,
   \* a=1;print a;
   tight |-> <<"a", "=", "1", ";", "p", "r", "i", "n", "t", " ", "a", ";", "\n">>,
   \* print 7 -a;
   minusVar |-> <<"p", "r", "i", "n", "t", " ", "7", " ", "-", "a", ";", "\n">>,
   \* print '\n';
   charNewline |-> <<"p", "r", "i", "n", "t", " ", "'", "\\", "n", "'", ";", "\n">>,
   \* print '"';
   charQuote |-> <<"p", "r", "i", "n", "t", " ", "'", "\"", "'", ";", "\n">>,
   \* a = [1,2]; b = a; push a, 3; print len b;
   aliasPush |-> <<"a", " ", "=", " ", "[", "1", ",", "2", "]", ";", " ", "b", " ", "=",
                   " ", "a", ";", " ", "p", "u", "s", "h", " ", "a", ",", " ", "3", ";",
                   " ", "p", "r", "i", "n", "t", " ", "l", "e", "n", " ", "b", ";", "\n">>,
   \* a = [1,2]; b = a; a[0] = 7; print b[0];
   aliasStore |-> <<"a", " ", "=", " ", "[", "1", ",", "2", "]", ";", " ", "b", " ", "=",
                    " ", "a", ";", " ", "a", "[", "0", "]", " ", "=", " ", "7", ";", " ",
                    "p", "r", "i", "n", "t", " ", "b", "[", "0", "]", ";", "\n">>,
   \* a = [1,2]; b = a; print b == a;
   aliasRead |-> <<"a", " ", "=", " ", "[", "1", ",", "2", "]", ";", " ", "b", " ", "=",
                   " ", "a", ";", " ", "p", "r", "i", "n", "t", " ", "b", " ", "=", "=",
                   " ", "a", ";", "\n">>,
   \* a = [1,2]; a = a; print len a;
   selfAssign |-> <<"a", " ", "=", " ", "[", "1", ",", "2", "]", ";", " ", "a", " ", "=",
                    " ", "a", ";", " ", "p", "r", "i", "n", "t", " ", "l", "e", "n", " ",
                    "a", ";", "\n">>,
   \* a = [1,2]; b = a; a = 7; print len b;
   rebind |-> <<"a", " ", "=", " ", "[", "1", ",", "2", "]", ";", " ", "b", " ", "=", " ",
                "a", ";", " ", "a", " ", "=", " ", "7", ";", " ", "p", "r", "i", "n", "t",
                " ", "l", "e", "n", " ", "b", ";", "\n">>,
   \* a = [1,2,3,4,5]; push a, 6;
   fiveGrow |-> <<"a", " ", "=", " ", "[", "1", ",", "2", ",", "3", ",", "4", ",", "5", "]",
                  ";", " ", "p", "u", "s", "h", " ", "a", ",", " ", "6", ";", "\n">>,
   \* a = [1,2,3,4,5]; a = a + a; push a, 1;
   fiveDouble |-> <<"a", " ", "=", " ", "[", "1", ",", "2", ",", "3", ",", "4", ",", "5",
                    "]", ";", " ", "a", " ", "=", " ", "a", " ", "+", " ", "a", ";", " ",
                    "p", "u", "s", "h", " ", "a", ",", " ", "1", ";", "\n">>,
   \* a = [1,2,3,4,5]; a = a * 3;
   fiveTriple |-> <<"a", " ", "=", " ", "[", "1", ",", "2", ",", "3", ",", "4", ",", "5",
                    "]", ";", " ", "a", " ", "=", " ", "a", " ", "*", " ", "3", ";", "\n">>,
   \* a = [1,2,3,4,5,6];
   sixLit |-> <<"a", " ", "=", " ", "[", "1", ",", "2", ",", "3", ",", "4", ",", "5", ",",
                "6", "]", ";", "\n">>,
   \* a = 0 + [1,2,3,4,5];
   intPlusSeq |-> <<"a", " ", "=", " ", "0", " ", "+", " ", "[", "1", ",", "2", ",", "3",
                    ",", "4", ",", "5", "]", ";", "\n">>,
   \* a = []; i = 0; while (i < 11) { push a, i; i = i + 1; }
   fill |-> <<"a", " ", "=", " ", "[", "]", ";", " ", "i", " ", "=", " ", "0", ";", " ",
              "w", "h", "i", "l", "e", " ", "(", "i", " ", "<", " ", "1", "1", ")", " ",
              "{", " ", "p", "u", "s", "h", " ", "a", ",", " ", "i", ";", " ", "i", " ",
              "=", " ", "i", " ", "+", " ", "1", ";", " ", "}", "\n">>,
   \* i = 0; while (i < len [7,7]) { print i; i = i + 1; }
   countUp |-> <<"i", " ", "=", " ", "0", ";", " ", "w", "h", "i", "l", "e", " ", "(", "i",
                 " ", "<", " ", "l", "e", "n", " ", "[", "7", ",", "7", "]", ")", " ", "{",
                 " ", "p", "r", "i", "n", "t", " ", "i", ";", " ", "i", " ", "=", " ", "i",
                 " ", "+", " ", "1", ";", " ", "}", "\n">>,
   \* while (0) print 1; print 9;
   whileFalse |-> <<"w", "h", "i", "l", "e", " ", "(", "0", ")", " ", "p", "r", "i", "n",
                    "t", " ", "1", ";", " ", "p", "r", "i", "n", "t", " ", "9", ";", "\n">>,
   \* while ([1]) print 1;
   whileSeq |-> <<"w", "h", "i", "l", "e", " ", "(", "[", "1", "]", ")", " ", "p", "r", "i",
                  "n", "t", " ", "1", ";", "\n">>,
   \* c = 1; while (c) { print 5; c = [1]; }
   whileTurnsSeq |-> <<"c", " ", "=", " ", "1", ";", " ", "w", "h", "i", "l", "e", " ", "(",
                       "c", ")", " ", "{", " ", "p", "r", "i", "n", "t", " ", "5", ";", " ",
                       "c", " ", "=", " ", "[", "1", "]", ";", " ", "}", "\n">>,
   \* if (0) print 1; print 9;
   ifZero |-> <<"i", "f", " ", "(", "0", ")", " ", "p", "r", "i", "n", "t", " ", "1", ";",
                " ", "p", "r", "i", "n", "t", " ", "9", ";", "\n">>,
   \* if (2) print 1; print 9;
   ifTwo |-> <<"i", "f", " ", "(", "2", ")", " ", "p", "r", "i", "n", "t", " ", "1", ";",
               " ", "p", "r", "i", "n", "t", " ", "9", ";", "\n">>,
   \* if (0 - 1) print 1;
   ifNegative |-> <<"i", "f", " ", "(", "0", " ", "-", " ", "1", ")", " ", "p", "r", "i",
                    "n", "t", " ", "1", ";", "\n">>,
   \* if ([1]) print 1;
   ifSeq |-> <<"i", "f", " ", "(", "[", "1", "]", ")", " ", "p", "r", "i", "n", "t", " ",
               "1", ";", "\n">>,
   \* a = 7; print a - 1;
   minusSpace |-> <<"a", " ", "=", " ", "7", ";", " ", "p", "r", "i", "n", "t", " ", "a",
                    " ", "-", " ", "1", ";", "\n">>]

\* number of characters between the quotes of the generated string literals
MaxBody == 2

\* print "body";  for every body of quotes, backslashes and the letters a, n
Strings ==
  {[body |-> body,
    text |-> <<"p", "r", "i", "n", "t", " ", "\"">> \o body \o <<"\"", ";", "\n">>] :
     body \in UNION {[1..n -> {"a", "n", "\\", "\""}] : n \in 0..MaxBody}}

\* the generated programs: the chains, the scenarios, the string literals,
\* a statement that parses followed on the next line by any statement, the
\* rejected statements alone, and the examples
Programs ==
  {c.text : c \in Chains} \cup Scenarios \cup {s.text : s \in Strings}
  \cup {Statements[i] \o <<"\n">> \o second :
          i \in DOMAIN Statements,
          second \in {Statements[j] : j \in DOMAIN Statements}
                       \cup {Rejected[j] : j \in DOMAIN Rejected}}
  \cup {Rejected[j] : j \in DOMAIN Rejected}
  \cup {Examples[j] : j \in DOMAIN Examples}

InitRun ==
  /\ heap = <<>>
  /\ env = makeEnvironment
  /\ out = <<>>
  /\ err = <<>>
  /\ status = "running"
  /\ last = NoLast
  /\ nstmts = 0
  /\ input \in Programs
  /\ fp = input
  /\ lineCount = 1
  /\ stmt = NoStmt
  /\ pc = "parse"

\* a loop that reads the first token of the next statement before it
\* executes the one it has parsed
ReadStatement_ahead ==
  /\ pc = "parse"
  /\ status = "running"
  /\ \E t \in {parseToken(fp, lineCount)} :
       \E r \in {IF Failed(t) \/ t.tok = <<>> THEN t ELSE parseStmt(t.tok, t.fp, t.line)} :
         /\ fp' = IF Failed(r) \/ t.tok = <<>> THEN r.fp ELSE parseToken(r.fp, r.line).fp
         /\ lineCount' = r.line
         /\ err' = IF Failed(r) THEN Append(err, r.err) ELSE err
         /\ status' = IF Failed(r) THEN "exit1" ELSE status
         /\ stmt' = IF Failed(r) \/ t.tok = <<>> THEN NoStmt ELSE r.tree
         /\ pc' = IF Failed(r) THEN pc ELSE IF t.tok = <<>> THEN "end" ELSE "execute"
  /\ UNCHANGED <<heap, env, out, last, nstmts, input>>

\* while ( parseToken( tok, fp ) ) { Stmt *stmt = parseStmt( tok, fp );
\* t is what parseToken hands back and r what the parser leaves
ReadStatement ==
  /\ pc = "parse"
  /\ status = "running"
  /\ \E t \in {parseToken(fp, lineCount)} :
       \E r \in {IF Failed(t) \/ t.tok = <<>> THEN t ELSE parseStmt(t.tok, t.fp, t.line)} :
         /\ fp' = r.fp
         /\ lineCount' = r.line
         /\ err' = IF Failed(r) THEN Append(err, r.err) ELSE err
         /\ status' = IF Failed(r) THEN "exit1" ELSE status
         /\ stmt' = IF Failed(r) \/ t.tok = <<>> THEN NoStmt ELSE r.tree
         /\ pc' = IF Failed(r) THEN pc ELSE IF t.tok = <<>> THEN "end" ELSE "execute"
  /\ UNCHANGED <<heap, env, out, last, nstmts, input>>

\* stmt->execute( stmt, env ); stmt->destroy( stmt ); }
ExecuteStatement ==
  /\ pc = "execute"
  /\ status = "running"
  /\ \E junk \in Outcomes(stmt) : Becomes(execute(stmt, Machine, junk))
  /\ nstmts' = nstmts + 1
  /\ stmt' = NoStmt
  /\ pc' = "parse"
  /\ UNCHANGED <<input, fp, lineCount>>

\* fclose( fp ); freeEnvironment( env ); return EXIT_SUCCESS;
Finish ==
  /\ pc = "end"
  /\ EndOfInput

NextRun == ReadStatement \/ ExecuteStatement \/ Finish

SpecRun == InitRun /\ [][NextRun]_vars

(***************************************************************************)
(* Vocabulary of the properties.                                           *)
(***************************************************************************)
\* the transition is a run of the statement st
Ran(st) ==
  /\ status = "running"
  /\ nstmts' = nstmts + 1
  /\ \E junk \in Outcomes(st) : Becomes(execute(st, Machine, junk))

Objects == 1..Len(heap)

\* the value the environment binds name to, 0 for a name without a record
Bound(name) ==
  IF \E i \in 1..Len(env.vlist) : env.vlist[i].name = name
  THEN (CHOOSE r \in {env.vlist[i] : i \in 1..Len(env.vlist)} : r.name = name).val
  ELSE IntValue(0)

\* the records of the environment that hold the sequence p
Holders(p) == {i \in 1..Len(env.vlist) :
                 env.vlist[i].val.vtype = "SeqType" /\ env.vlist[i].val.sval = p}

TypeMismatchExit == status = "exit1" /\ err = <<"Type mismatch">>

(***************************************************************************)
(* C1.  Ref-count soundness: when a run has ended with exit status 0 and   *)
(* the environment has been torn down, every sequence created during the   *)
(* run has been freed exactly once.                                        *)
(***************************************************************************)
C1_RefCountSoundness ==
  status = "exit0" => \A p \in Objects : heap[p].frees = 1

(***************************************************************************)
(* C2.  No over-release: no reference count is ever negative, the          *)
(* assertion of releaseSequence never fails, no sequence is freed twice    *)
(* and none is grabbed or released after it was freed.                     *)
(***************************************************************************)
C2_NoOverRelease ==
  /\ status \notin {"abort", "undefined"}
  /\ \A p \in Objects : heap[p].ref >= 0 /\ heap[p].frees <= 1

\* a sequence held by two variables was released twice by the teardown and freed
C2_Witness ==
  /\ status = "exit0"
  /\ \E p \in Objects : Cardinality(Holders(p)) = 2 /\ heap[p].frees = 1 /\ heap[p].ref = 0

(***************************************************************************)
(* The expressions of the generated programs: the tree in which every      *)
(* operator takes all that is on its left as its left operand.             *)
(***************************************************************************)
TermTree(t) ==
  CASE t = <<"2">> -> makeLiteralInt(2)
    [] t = <<"3">> -> makeLiteralInt(3)
    [] t = <<"4">> -> makeLiteralInt(4)

RECURSIVE LeftNest(_, _, _)
LeftNest(ts, ops, n) ==
  IF n = 0 THEN TermTree(ts[1])
  ELSE buildSimpleExpr(LeftNest(ts, ops, n - 1), TermTree(ts[n + 1]),
                       infixKind(text(ops[n])))

\* the machine a run starts with
Started == [heap |-> <<>>, env |-> makeEnvironment, out |-> <<>>, err |-> <<>>,
            status |-> "running", last |-> NoLast]

(***************************************************************************)
(* C3.  The infix operators + - * / < == && || and [ have one precedence   *)
(* level and associate left: the program  print t0 op1 t1 op2 t2;  is      *)
(* parsed without an error into the print of ((t0 op1 t1) op2 t2), and     *)
(* what the run writes and how it ends is what executing that tree gives.  *)
(***************************************************************************)
C3_FlatLeftAssociative ==
  \A c \in Chains :
    input = c.text =>
      /\ nstmts = 0 => status = "running" /\ err = <<>>
      /\ pc = "execute" => stmt = makePrint(LeftNest(c.ts, c.ops, Len(c.ops)))
      /\ nstmts = 1 =>
           \E junk \in PtrBits :
             \E m \in {execute(makePrint(LeftNest(c.ts, c.ops, Len(c.ops))),
                               Started, junk)} :
               /\ out = m.out
               /\ IF Running(m) THEN status \in {"running", "exit0"} /\ err = <<>>
                  ELSE status = m.status /\ err = m.err

\* print 2 - 3 - 4; has run to its end and has written -5, which is (2 - 3) - 4
C3_Witness ==
  /\ input = ChainText(<<<<"2">>, <<"3">>, <<"4">>>>, <<<<"-">>, <<"-">>>>)
  /\ status = "exit0"
  /\ out = <<MINUS, ZERO + 5>>

(***************************************************************************)
(* C4.  The program  print 2 + 3 * 4;  writes 20 to stdout, writes nothing *)
(* to stderr and exits with status 0.                                      *)
(***************************************************************************)
TwoPlusThreeTimesFour ==
  ChainText(<<<<"2">>, <<"3">>, <<"4">>>>, <<<<"+">>, <<"*">>>>)

C4_PrintsTwenty ==
  input = TwoPlusThreeTimesFour =>
    /\ status \in {"running", "exit0"}
    /\ err = <<>>
    /\ out \in {<<>>, <<ZERO + 2, ZERO>>}
    /\ nstmts = 1 => out = <<ZERO + 2, ZERO>>

\* the program has exited with status 0 and stdout holds the two bytes of 20
C4_Witness ==
  /\ input = TwoPlusThreeTimesFour
  /\ status = "exit0"
  /\ nstmts = 1
  /\ out = <<ZERO + 2, ZERO>>

\* the statement of the table: the program writes 14 and exits with status 0
C4_PrintsFourteen ==
  (input = TwoPlusThreeTimesFour /\ status = "exit0") => out = <<ZERO + 1, ZERO + 4>>

(***************************************************************************)
(* C5.  Mul with both operands of kind Seq ends the run with the           *)
(* diagnostic Type mismatch and a non-zero exit.                           *)
(***************************************************************************)
C5_SeqTimesSeqIsMismatch ==
  (last.op = "Mul" /\ last.t1 = "SeqType" /\ last.t2 = "SeqType") => TypeMismatchExit

(***************************************************************************)
(* C6.  An indexed assignment whose right-hand side is not an Int, whose   *)
(* index is not an Int or whose name is not bound to a Seq ends the run    *)
(* with Type mismatch.                                                     *)
(***************************************************************************)
C6_ElementAssignmentKinds ==
  (/\ last.op = "ElementAssignment"
   /\ \/ last.t1 # "IntType"
      \/ last.t2 # "IntType"
      \/ Bound("a").vtype # "SeqType")
  => TypeMismatchExit

(***************************************************************************)
(* The operands of the statements: what an atom evaluates to in the        *)
(* current state.                                                          *)
(***************************************************************************)
BoundIn(e, name) ==
  IF \E i \in 1..Len(e.vlist) : e.vlist[i].name = name
  THEN (CHOOSE r \in {e.vlist[i] : i \in 1..Len(e.vlist)} : r.name = name).val
  ELSE IntValue(0)

AtomKind(x) ==
  CASE x.k = "LiteralInt" -> "IntType"
    [] x.k = "SequenceInitializer" -> "SeqType"
    [] x.k = "Variable" -> Bound(x.s).vtype

AtomInt(x) == IF x.k = "LiteralInt" THEN x.n ELSE Bound(x.s).ival

AtomElems(x) ==
  IF x.k = "SequenceInitializer" THEN [i \in 1..x.n |-> x.kids[i].n]
  ELSE heap[Bound(x.s).sval].seq

\* every object of the current state except those in but is left as it is
Untouched(but) == \A p \in Objects \ but : heap'[p] = heap[p]

\* the objects the variable a holds now
HeldByA == IF Bound("a").vtype = "SeqType" THEN {Bound("a").sval} ELSE {}

(***************************************************************************)
(* C7.  Indexed assignment stability: a[i] = v with a bound to a sequence, *)
(* v and i Ints and 0 <= i < len a sets element i to v and changes nothing *)
(* else: not the length, the other elements, the reference count, any      *)
(* other object, any binding, or the output.                               *)
(***************************************************************************)
C7_ElementAssignmentFrame ==
  [][\A i \in Atoms, x \in Atoms :
       (/\ last'.op = "ElementAssignment"
        /\ AtomKind(x) = "IntType"
        /\ AtomKind(i) = "IntType"
        /\ Bound("a").vtype = "SeqType"
        /\ 0 <= AtomInt(i)
        /\ AtomInt(i) < Len(heap[Bound("a").sval].seq)
        /\ Ran(makeAssignment("a", i, x)))
       => LET p == Bound("a").sval
          IN  /\ status' = "running"
              /\ heap'[p].seq[AtomInt(i) + 1] = AtomInt(x)
              /\ Len(heap'[p].seq) = Len(heap[p].seq)
              /\ \A j \in 1..Len(heap[p].seq) :
                    j # AtomInt(i) + 1 => heap'[p].seq[j] = heap[p].seq[j]
              /\ heap'[p].ref = heap[p].ref
              /\ Len(heap') = Len(heap)
              /\ Untouched({p})
              /\ env' = env
              /\ out' = out
              /\ err' = err]_vars

\* a[0] = 3 (or 0, or -1) was run on the three-element sequence held by a
C7_Witness ==
  /\ last.op = "ElementAssignment"
  /\ last.t1 = "IntType"
  /\ last.t2 = "IntType"
  /\ status = "running"
  /\ Bound("a").vtype = "SeqType"
  /\ Len(heap[Bound("a").sval].seq) = 3
  /\ heap[Bound("a").sval].seq[1] \in {-1, 0, 3}
  /\ heap[Bound("a").sval].seq[2] = 6

(***************************************************************************)
(* C8.  Bounds checking: s[i] and a[i] = v end the run with Index out of   *)
(* bounds exactly when i < 0 or i >= len (i = len included); otherwise     *)
(* s[i] is the Int stored at position i.                                   *)
(***************************************************************************)
OutOfBoundsExit(e) == status' = "exit1" /\ err' = Append(e, "Index out of bounds")

C8_BoundsChecking ==
  [][/\ \A x \in Atoms, i \in Atoms :
          (/\ last'.op = "SequenceIndex"
           /\ AtomKind(x) = "SeqType"
           /\ AtomKind(i) = "IntType"
           /\ Ran(makeAssignment("a", NULL, buildSimpleExpr(x, i, "SequenceIndex"))))
          => IF AtomInt(i) < 0 \/ AtomInt(i) >= Len(AtomElems(x))
             THEN OutOfBoundsExit(err) /\ env' = env
             ELSE /\ status' = "running"
                  /\ err' = err
                  /\ BoundIn(env', "a") = IntValue(AtomElems(x)[AtomInt(i) + 1])
     /\ \A i \in Atoms, x \in Atoms :
          (/\ last'.op = "ElementAssignment"
           /\ AtomKind(x) = "IntType"
           /\ AtomKind(i) = "IntType"
           /\ Bound("a").vtype = "SeqType"
           /\ Ran(makeAssignment("a", i, x)))
          => IF AtomInt(i) < 0 \/ AtomInt(i) >= Len(heap[Bound("a").sval].seq)
             THEN OutOfBoundsExit(err) /\ heap' = heap
             ELSE status' = "running" /\ err' = err]_vars

\* an index expression on a sequence with an Int index ended the run
C8_Witness ==
  /\ last.op = "SequenceIndex"
  /\ last.t1 = "SeqType"
  /\ last.t2 = "IntType"
  /\ status = "exit1"
  /\ err = <<"Index out of bounds">>

(***************************************************************************)
(* C9.  Add is total over {Int, Seq}: it never ends the run; Int + Int is  *)
(* the sum; otherwise the result is a new sequence holding the left        *)
(* operand's elements (or the single Int) followed by the right's, also    *)
(* when both operands are the same variable; and the sequences that        *)
(* variables hold keep their contents and reference counts.                *)
(***************************************************************************)
AddElems(x, y) ==
  CASE AtomKind(x) = "SeqType" /\ AtomKind(y) = "SeqType" -> AtomElems(x) \o AtomElems(y)
    [] AtomKind(x) = "SeqType" /\ AtomKind(y) = "IntType" -> Append(AtomElems(x), AtomInt(y))
    [] AtomKind(x) = "IntType" /\ AtomKind(y) = "SeqType" -> <<AtomInt(x)>> \o AtomElems(y)

C9_AddTotal ==
  [][\A x \in Atoms, y \in Atoms :
       /\ (last'.op = "Add" /\ Ran(makeAssignment("a", NULL, buildSimpleExpr(x, y, "Add"))))
          => /\ status' = "running"
             /\ err' = err
             /\ out' = out
             /\ Untouched(HeldByA)
             /\ IF AtomKind(x) = "IntType" /\ AtomKind(y) = "IntType"
                THEN BoundIn(env', "a") = IntValue(AtomInt(x) + AtomInt(y))
                ELSE LET r == Len(heap')
                     IN  /\ r > Len(heap)
                         /\ BoundIn(env', "a") = SeqValue(r)
                         /\ heap'[r].seq = AddElems(x, y)
                         /\ Len(heap'[r].seq) =
                               (IF AtomKind(x) = "SeqType" THEN Len(AtomElems(x)) ELSE 1)
                             + (IF AtomKind(y) = "SeqType" THEN Len(AtomElems(y)) ELSE 1)
                         /\ heap'[r].ref = 1
                         /\ heap'[r].frees = 0
       /\ (last'.op = "Add" /\ Ran(makePrint(buildSimpleExpr(x, y, "Add"))))
          => /\ status' = "running"
             /\ err' = err
             /\ env' = env
             /\ Untouched({})
             /\ out' = out \o (IF AtomKind(x) = "IntType" /\ AtomKind(y) = "IntType"
                               THEN decimal(AtomInt(x) + AtomInt(y))
                               ELSE bytes(AddElems(x, y)))]_vars

\* a now holds a six-element sum of two sequences, in a buffer that has grown
C9_Witness ==
  /\ last.stmt = "Assignment"
  /\ last.op = "Add"
  /\ last.t1 = "SeqType"
  /\ last.t2 = "SeqType"
  /\ status = "running"
  /\ Bound("a").vtype = "SeqType"
  /\ heap[Bound("a").sval].seq = <<5, 6, 7, 5, 6, 7>>
  /\ heap[Bound("a").sval].cap = INIT_CAP * DOUBLE_CAP

(***************************************************************************)
(* C10.  Repetition: a * n and n * a, for a sequence a and an Int n, are a *)
(* new sequence with reference count 0 that holds a's elements n times in  *)
(* order, none when n <= 0; a itself is unchanged.                         *)
(***************************************************************************)
Repeated(xs, n) ==
  IF n <= 0 \/ xs = <<>> THEN <<>>
  ELSE [i \in 1..(n * Len(xs)) |-> xs[((i - 1) % Len(xs)) + 1]]

MulElems(x, y) ==
  IF AtomKind(x) = "SeqType" THEN Repeated(AtomElems(x), AtomInt(y))
  ELSE Repeated(AtomElems(y), AtomInt(x))

C10_Repetition ==
  [][\A x \in Atoms, y \in Atoms :
       AtomKind(x) # AtomKind(y) =>
       /\ (last'.op = "Mul" /\ Ran(makeAssignment("a", NULL, buildSimpleExpr(x, y, "Mul"))))
          => LET r == Len(heap')
             IN  /\ status' = "running"
                 /\ err' = err
                 /\ r > Len(heap)
                 /\ BoundIn(env', "a") = SeqValue(r)
                 /\ heap'[r].seq = MulElems(x, y)
                 /\ Len(heap'[r].seq) =
                       Len(IF AtomKind(x) = "SeqType" THEN AtomElems(x) ELSE AtomElems(y))
                     * (LET n == IF AtomKind(x) = "SeqType" THEN AtomInt(y) ELSE AtomInt(x)
                        IN  IF n < 0 THEN 0 ELSE n)
                 /\ heap'[r].ref = 1
                 /\ heap'[r].frees = 0
                 /\ Untouched(HeldByA)
       /\ (last'.op = "Mul" /\ Ran(makePrint(buildSimpleExpr(x, y, "Mul"))))
          => LET r == Len(heap')
             IN  /\ status' = "running"
                 /\ err' = err
                 /\ env' = env
                 /\ r > Len(heap)
                 /\ heap'[r].ref = 0
                 /\ heap'[r].frees = 1
                 /\ out' = out \o bytes(MulElems(x, y))
                 /\ Untouched({})]_vars

\* a now holds the nine elements of a three-element sequence times 3
C10_Witness ==
  /\ last.stmt = "Assignment"
  /\ last.op = "Mul"
  /\ {last.t1, last.t2} = {"SeqType", "IntType"}
  /\ status = "running"
  /\ Bound("a").vtype = "SeqType"
  /\ heap[Bound("a").sval].seq = <<5, 6, 7, 5, 6, 7, 5, 6, 7>>
  /\ heap[Bound("a").sval].ref = 1

(***************************************************************************)
(* The evaluator applied to bound operands: the run starts after           *)
(*   a = x; b = y;                                                         *)
(* for two values x and y, Ints or sequence literals, and every step       *)
(* prints one expression over a and b.                                     *)
(***************************************************************************)
\* length of the sequence literals a and b are bound to
MaxLen == 2

\* number of expressions printed in one run
MaxEvals == 1

Values == {makeLiteralInt(-3), makeLiteralInt(0), makeLiteralInt(2)}
            \cup {Lit(s) : s \in UNION {[1..n -> {1, 2}] : n \in 0..MaxLen}}

\* expressions that end the run when they are evaluated: 1 / 0, [1][5], [] - 1
Failing == {buildSimpleExpr(makeLiteralInt(1), makeLiteralInt(0), "Div"),
            buildSimpleExpr(Lit(<<1>>), makeLiteralInt(5), "SequenceIndex"),
            buildSimpleExpr(Lit(<<>>), makeLiteralInt(1), "Sub")}

\* what is printed: a op b and a op a for the operators on two values, and
\* l && r, l || r with operands that may end the run
Evaluated ==
  {buildSimpleExpr(makeVariable("a"), y, k) :
     k \in {"Sub", "Div", "Less", "Equals"}, y \in {makeVariable("a"), makeVariable("b")}}
  \cup {buildSimpleExpr(l, r, k) :
          k \in {"And", "Or"},
          l \in {makeVariable("a"), buildSimpleExpr(makeLiteralInt(1), makeLiteralInt(0), "Div")},
          r \in {makeVariable("b")} \cup Failing}

InitEval ==
  /\ \E x \in Values, y \in Values :
       \E m \in {execute(makeAssignment("b", NULL, y),
                         execute(makeAssignment("a", NULL, x),
                                 [heap |-> <<>>, env |-> makeEnvironment, out |-> <<>>,
                                  err |-> <<>>, status |-> "running", last |-> NoLast],
                                 0),
                         0)} :
         heap = m.heap /\ env = m.env
  /\ out = <<>>
  /\ err = <<>>
  /\ status = "running"
  /\ last = NoLast
  /\ nstmts = 0
  /\ input = <<>>
  /\ fp = <<>>
  /\ lineCount = 1
  /\ stmt = NoStmt
  /\ pc = "tree"

\* stmt->execute( stmt, env ); stmt->destroy( stmt ); for a print statement
Evaluate ==
  /\ status = "running"
  /\ nstmts < MaxEvals
  /\ \E e \in Evaluated :
       \E junk \in Outcomes(makePrint(e)) : Becomes(execute(makePrint(e), Machine, junk))
  /\ nstmts' = nstmts + 1
  /\ UNCHANGED <<input, fp, lineCount, stmt, pc>>

NextEval == Evaluate \/ EndOfInput

SpecEval == InitEval /\ [][NextEval]_vars

(***************************************************************************)
(* Vocabulary of the properties of the evaluator.                          *)
(***************************************************************************)
VarA == makeVariable("a")

VarB == makeVariable("b")

Truth(p) == IF p THEN 1 ELSE 0

\* the step prints the Int n and the run goes on
Prints(n) == status' = "running" /\ err' = err /\ out' = out \o decimal(n)

\* the step ends the run with the diagnostic msg, exit status 1 and no output
Exits(msg) == status' = "exit1" /\ err' = Append(err, msg) /\ out' = out

\* s is before t in the lexicographic order
RECURSIVE LexLess(_, _)
LexLess(s, t) ==
  IF s = <<>> THEN t # <<>>
  ELSE IF t = <<>> THEN FALSE
  ELSE IF Head(s) # Head(t) THEN Head(s) < Head(t)
  ELSE LexLess(Tail(s), Tail(t))

\* the Int the evaluator gives for x op y in the current state
Evaluates(x, y, op) == eval(buildSimpleExpr(x, y, op), Machine, 0).v.ival

(***************************************************************************)
(* C11.  Lexicographic totality: for two sequences a and b, a < b prints 1 *)
(* exactly when a is before b in the lexicographic order (the first        *)
(* differing element decides, a strict prefix is less, equal sequences are *)
(* not less), a == b prints 1 exactly when they are equal, and exactly one *)
(* of a < b, a == b, b < a evaluates to 1, the other two to 0.             *)
(***************************************************************************)
C11_LexicographicTotality ==
  [][(AtomKind(VarA) = "SeqType" /\ AtomKind(VarB) = "SeqType") =>
       /\ Ran(makePrint(buildSimpleExpr(VarA, VarB, "Less")))
            => /\ Prints(Truth(LexLess(AtomElems(VarA), AtomElems(VarB))))
               /\ {Evaluates(VarA, VarB, "Less"), Evaluates(VarA, VarB, "Equals"),
                   Evaluates(VarB, VarA, "Less")} = {0, 1}
               /\ Evaluates(VarA, VarB, "Less") + Evaluates(VarA, VarB, "Equals")
                    + Evaluates(VarB, VarA, "Less") = 1
       /\ Ran(makePrint(buildSimpleExpr(VarA, VarB, "Equals")))
            => Prints(Truth(AtomElems(VarA) = AtomElems(VarB)))
       /\ Ran(makePrint(buildSimpleExpr(VarA, VarA, "Less"))) => Prints(0)]_vars

\* a < b has printed 1 for a = [1] and b = [1, 2]: a strict prefix is less
C11_Witness ==
  /\ last.op = "Less"
  /\ AtomKind(VarA) = "SeqType" /\ AtomElems(VarA) = <<1>>
  /\ AtomKind(VarB) = "SeqType" /\ AtomElems(VarB) = <<1, 2>>
  /\ status = "running"
  /\ out = <<ZERO + 1>>

(***************************************************************************)
(* C12.  Equals never reports an error and prints 0 or 1: numeric equality *)
(* for two Ints, 0 for an Int and a Seq in either order, and for two Seqs  *)
(* 1 exactly when the lengths are equal and the elements are pointwise     *)
(* equal; Less with operands of different kinds ends the run with          *)
(* Type mismatch.                                                          *)
(***************************************************************************)
EqualsOf(x, y) ==
  IF AtomKind(x) = "IntType" /\ AtomKind(y) = "IntType" THEN Truth(AtomInt(x) = AtomInt(y))
  ELSE IF AtomKind(x) # AtomKind(y) THEN 0
  ELSE Truth(/\ Len(AtomElems(x)) = Len(AtomElems(y))
             /\ \A i \in 1..Len(AtomElems(x)) : AtomElems(x)[i] = AtomElems(y)[i])

C12_EqualsTotalLessSameKind ==
  [][/\ \A y \in {VarA, VarB} :
          Ran(makePrint(buildSimpleExpr(VarA, y, "Equals"))) => Prints(EqualsOf(VarA, y))
     /\ (AtomKind(VarA) # AtomKind(VarB)
         /\ Ran(makePrint(buildSimpleExpr(VarA, VarB, "Less"))))
        => Exits("Type mismatch")]_vars

\* a == b has printed 0 for an Int a and a sequence b
C12_Witness ==
  /\ last.op = "Equals"
  /\ AtomKind(VarA) = "IntType"
  /\ AtomKind(VarB) = "SeqType"
  /\ status = "running"
  /\ err = <<>>
  /\ out = <<ZERO>>

(***************************************************************************)
(* C13.  Short-circuit: l && r with l the Int 0, and l || r with l a       *)
(* non-zero Int, print l and never evaluate r, so that no error r would    *)
(* raise occurs and no sequence r would make is made; otherwise r is       *)
(* evaluated after l, must be an Int and is the result.  A Seq l always    *)
(* ends the run with Type mismatch, and an l that ends the run does so     *)
(* before r is looked at.                                                  *)
(***************************************************************************)
\* whether the left operand n decides the result of op
Decides(op, n) == IF op = "And" THEN n = 0 ELSE n # 0

\* the diagnostic the evaluation of an expression of Failing ends the run with
Diagnostic(r) ==
  CASE r.k = "Div" -> "Divide by zero"
    [] r.k = "SequenceIndex" -> "Index out of bounds"
    [] r.k = "Sub" -> "Type mismatch"

C13_ShortCircuit ==
  [][\A op \in {"And", "Or"} :
       /\ \A r \in {VarB} \cup Failing :
            Ran(makePrint(buildSimpleExpr(VarA, r, op)))
            => IF AtomKind(VarA) = "SeqType" THEN Exits("Type mismatch") /\ heap' = heap
               ELSE IF Decides(op, AtomInt(VarA)) THEN Prints(AtomInt(VarA)) /\ heap' = heap
               ELSE IF r \in Failing THEN Exits(Diagnostic(r))
               ELSE IF AtomKind(VarB) = "SeqType" THEN Exits("Type mismatch")
               ELSE Prints(AtomInt(VarB))
       /\ \A r \in {VarB} \cup Failing :
            Ran(makePrint(buildSimpleExpr(
                            buildSimpleExpr(makeLiteralInt(1), makeLiteralInt(0), "Div"),
                            r, op)))
            => Exits("Divide by zero") /\ heap' = heap]_vars

\* 0 && r has printed 0 and its right operand was not evaluated
C13_Witness ==
  /\ last.op = "And"
  /\ last.t1 = "IntType"
  /\ last.t2 = NotEvaluated.vtype
  /\ AtomKind(VarA) = "IntType" /\ AtomInt(VarA) = 0
  /\ status = "running"
  /\ out = <<ZERO>>

(***************************************************************************)
(* C14.  Sub and Div end the run with Type mismatch when either operand is *)
(* a Seq; Div of two Ints by zero ends it with Divide by zero, exit status *)
(* 1 and no value; otherwise they print the difference and the quotient    *)
(* (truncated toward zero).                                                *)
(***************************************************************************)
Abs(n) == IF n < 0 THEN -n ELSE n

\* the quotient q of a by b with a = q * b + r, |r| < |b| and r of the sign of a
Truncated(a, b) ==
  CHOOSE q \in (-Abs(a))..Abs(a) :
    \E r \in (1 - Abs(b))..(Abs(b) - 1) :
      a = q * b + r /\ (r = 0 \/ (r > 0) = (a > 0))

C14_SubDiv ==
  [][\A y \in {VarA, VarB} :
       /\ Ran(makePrint(buildSimpleExpr(VarA, y, "Sub")))
          => IF AtomKind(VarA) = "SeqType" \/ AtomKind(y) = "SeqType"
             THEN Exits("Type mismatch")
             ELSE Prints(AtomInt(VarA) - AtomInt(y))
       /\ Ran(makePrint(buildSimpleExpr(VarA, y, "Div")))
          => IF AtomKind(VarA) = "SeqType" \/ AtomKind(y) = "SeqType"
             THEN Exits("Type mismatch")
             ELSE IF AtomInt(y) = 0 THEN Exits("Divide by zero")
             ELSE Prints(Truncated(AtomInt(VarA), AtomInt(y)))]_vars

\* a / b has printed -1 for a = -3 and b = 2
C14_Witness ==
  /\ last.op = "Div"
  /\ AtomKind(VarA) = "IntType" /\ AtomInt(VarA) = -3
  /\ AtomKind(VarB) = "IntType" /\ AtomInt(VarB) = 2
  /\ status = "running"
  /\ out = <<MINUS, ZERO + 1>>

(***************************************************************************)
(* The environment under a run of assignments: every step executes         *)
(*   name = name + 1;                                                      *)
(* for one of six names, one more than the environment first has room for. *)
(***************************************************************************)
\* number of assignments in one run
MaxAssigns == 7

Names == {"u", "v", "w", "x", "y", "z"}

\* stmt->execute( stmt, env ); stmt->destroy( stmt ); for  name = name + 1;
Assign ==
  /\ status = "running"
  /\ nstmts < MaxAssigns
  /\ \E name \in Names :
       Becomes(execute(makeAssignment(name, NULL,
                                      buildSimpleExpr(makeVariable(name), makeLiteralInt(1),
                                                      "Add")),
                       Machine, 0))
  /\ nstmts' = nstmts + 1
  /\ UNCHANGED <<input, fp, lineCount, stmt, pc>>

SpecEnv == Init /\ [][Assign]_vars

(***************************************************************************)
(* C15.  Environment uniqueness and order: the environment holds at most   *)
(* one record per name; an assignment to a new name adds its record after  *)
(* all the others, so that records stand in the order of first assignment; *)
(* an assignment to an existing name changes only the value of its record; *)
(* and every earlier binding survives the growth of the backing array,     *)
(* whose capacity is 5 and doubles when a record is added to a full array. *)
(***************************************************************************)
\* name = name + 1;
Incremented(name) ==
  makeAssignment(name, NULL,
                 buildSimpleExpr(makeVariable(name), makeLiteralInt(1), "Add"))

Recorded(name) == \E i \in 1..Len(env.vlist) : env.vlist[i].name = name

C15_EnvironmentUniqueOrdered ==
  /\ [](/\ \A i, j \in 1..Len(env.vlist) : env.vlist[i].name = env.vlist[j].name => i = j
        /\ Len(env.vlist) <= env.capacity
        /\ env.capacity = IF Len(env.vlist) <= INIT_CAP THEN INIT_CAP
                          ELSE INIT_CAP * DOUBLE_CAP)
  /\ [][\A name \in Names :
          Ran(Incremented(name))
          => IF Recorded(name)
             THEN /\ Len(env'.vlist) = Len(env.vlist)
                  /\ \A i \in 1..Len(env.vlist) :
                       /\ env'.vlist[i].name = env.vlist[i].name
                       /\ env'.vlist[i].val =
                            IF env.vlist[i].name = name
                            THEN IntValue(env.vlist[i].val.ival + 1)
                            ELSE env.vlist[i].val
             ELSE env'.vlist = Append(env.vlist, [name |-> name, val |-> IntValue(1)])]_vars

\* six names are recorded, the array has grown, and the first record, made
\* before the growth, was assigned again after it
C15_Witness ==
  /\ Len(env.vlist) = 6
  /\ env.capacity = INIT_CAP * DOUBLE_CAP
  /\ env.vlist[1].val = IntValue(2)
  /\ \A i \in 2..6 : env.vlist[i].val = IntValue(1)
  /\ nstmts = 7

TwoLines(first, second) == first \o <<"\n">> \o second

\* the program starts with the line first
StartsWith(first) ==
  /\ Len(input) > Len(first)
  /\ SubSeq(input, 1, Len(first) + 1) = first \o <<"\n">>

\* the tree of a statement of Statements, and the machine after it ran first
TreeOf(first) == parseStmtAt(parseToken(first, 1)).tree

After(first) == execute(TreeOf(first), Started, 0)

\* what the diagnostic says after the line number, for each statement of Rejected
Complaint ==
  [indexSum |-> "syntax error",
   unclosed |-> "syntax error",
   twoTerms |-> "syntax error",
   noExpr |-> "syntax error",
   badEscape |-> "Invalid escape sequence \"\\q\"",
   unterminated |-> "invalid string literal.",
   longChar |-> "Invalid single-quoted string",
   noStatement |-> "syntax error",
   cutOff |-> "syntax error",
   noComma |-> "syntax error",
   elementSemi |-> "syntax error",
   doubleComma |-> "syntax error",
   leadingComma |-> "syntax error",
   unclosedLit |-> "syntax error",
   braceAfter |-> "syntax error",
   loneAmp |-> "syntax error",
   lonePipe |-> "syntax error",
   loneEq |-> "syntax error",
   emptyChar |-> "Invalid single-quoted string",
   charEscape |-> "Invalid escape sequence \"\\q\"",
   minusDigit |-> "syntax error",
   minusTight |-> "syntax error",
   blockSyntax |-> "syntax error",
   ifLexical |-> "invalid string literal.",
   whileSyntax |-> "syntax error"]

(***************************************************************************)
(* C17.  Every error is fatal and reported once: a run that has hit a      *)
(* tokenizer, parser or runtime error has written exactly one diagnostic,  *)
(* has exit status 1 and takes no further step; a run that reached the end *)
(* of the input has written no diagnostic and has exit status 0; and a run *)
(* that is still going has written none.  The statements the tokenizer or  *)
(* the parser rejects end the run with their diagnostic, and  print 1 / 0; *)
(* ends it with Divide by zero before the next statement is read.          *)
(***************************************************************************)
C17_ErrorsFatalReportedOnce ==
  /\ [](/\ status \in {"running", "exit0", "exit1"}
        /\ status = "running" => err = <<>>
        /\ status = "exit0" => err = <<>> /\ pc = "end"
        /\ status = "exit1" => Len(err) = 1 /\ pc # "end"
        /\ \A j \in DOMAIN Rejected :
             input = Rejected[j] =>
               /\ nstmts = 0
               /\ out = <<>>
               /\ IF status = "running" THEN fp = input
                  ELSE status = "exit1" /\ err = <<"line 1: " \o Complaint[j]>>
        /\ (StartsWith(Statements.divide) /\ pc # "parse") =>
             /\ pc = "execute"
             /\ nstmts = 0
        /\ (StartsWith(Statements.divide) /\ nstmts > 0) =>
             /\ nstmts = 1
             /\ status = "exit1"
             /\ err = <<"Divide by zero">>
             /\ out = <<>>)
  /\ [][status = "running"]_vars

\* print 1 / 0; has ended the run with one diagnostic, and print 7; on the
\* next line was not read
C17_Witness ==
  /\ input = TwoLines(Statements.divide, Statements.print7)
  /\ status = "exit1"
  /\ err = <<"Divide by zero">>
  /\ nstmts = 1
  /\ out = <<>>
  /\ fp = <<"\n">> \o Statements.print7

(***************************************************************************)
(* C18.  Parsing and execution interleave at top-level statement           *)
(* granularity: when the first statement has been parsed nothing of the    *)
(* second has been read and nothing has been executed; the second is read  *)
(* only after the first was executed and destroyed, so that a lexical or   *)
(* syntax error in it is reported when all the output and the environment  *)
(* updates of the first have happened; and two statements execute in       *)
(* source order.                                                           *)
(***************************************************************************)
C18_StatementInterleaving ==
  /\ [](\A i \in DOMAIN Statements :
          \A second \in {Statements[j] : j \in DOMAIN Statements}
                          \cup {Rejected[j] : j \in DOMAIN Rejected} :
            input = TwoLines(Statements[i], second) =>
              \E m \in {After(Statements[i])} :
                /\ nstmts = 0 =>
                     /\ status = "running" /\ err = <<>> /\ out = <<>>
                     /\ env = makeEnvironment /\ heap = <<>>
                     /\ pc \in {"parse", "execute"}
                     /\ pc = "parse" => fp = input
                     /\ pc = "execute" =>
                          stmt = TreeOf(Statements[i]) /\ fp = <<"\n">> \o second
                /\ nstmts = 1 =>
                     /\ out = m.out /\ env = m.env /\ heap = m.heap
                     /\ ~Running(m) =>
                          status = m.status /\ err = m.err /\ fp = <<"\n">> \o second
                     /\ (Running(m) /\ pc = "parse" /\ status = "running") =>
                          fp = <<"\n">> \o second /\ stmt = NoStmt
                     /\ (Running(m) /\ status # "running") =>
                          /\ \E j \in DOMAIN Rejected :
                               /\ second = Rejected[j]
                               /\ err = <<"line 2: " \o Complaint[j]>>
                          /\ status = "exit1"
                     /\ (Running(m) /\ pc = "execute") =>
                          /\ \E j \in DOMAIN Statements : second = Statements[j]
                          /\ stmt = TreeOf(second)
                          /\ fp = <<>>
                /\ nstmts = 2 =>
                     /\ \E j \in DOMAIN Statements : second = Statements[j]
                     /\ Running(m)
                     /\ \E n \in {execute(TreeOf(second), m, 0)} :
                          /\ out = n.out /\ env = n.env /\ err = n.err
                          /\ status \in {n.status, "exit0"})
  /\ [][pc' = "execute" => (pc = "parse" /\ stmt = NoStmt /\ stmt' # NoStmt)]_vars

\* print 7; was executed before the syntax error on the second line was found
C18_Witness ==
  /\ input = TwoLines(Statements.print7, Rejected.twoTerms)
  /\ nstmts = 1
  /\ out = <<ZERO + 7>>
  /\ status = "exit1"
  /\ err = <<"line 2: syntax error">>

(***************************************************************************)
(* C19.  String literal lowering: a double-quoted string literal the       *)
(* tokenizer accepts is parsed into a sequence initializer with one        *)
(* literal Int per byte of the decoded body, in order, also when the body  *)
(* holds the escape of a double quote or is empty.                         *)
(***************************************************************************)
\* whether body is the inside of one string literal: no quote without a
\* backslash before it, and after a backslash one of n, t, the quote, the backslash
RECURSIVE WellFormed(_)
WellFormed(body) ==
  IF body = <<>> THEN TRUE
  ELSE IF Head(body) = "\"" THEN FALSE
  ELSE IF Head(body) = "\\"
  THEN /\ Len(body) >= 2
       /\ body[2] \in {"n", "t", "\"", "\\"}
       /\ WellFormed(Tail(Tail(body)))
  ELSE WellFormed(Tail(body))

\* the bytes of the decoded body, for bodies of a, n, backslash and quote
RECURSIVE Decoded(_)
Decoded(body) ==
  IF body = <<>> THEN <<>>
  ELSE IF Head(body) = "\\"
  THEN <<CASE body[2] = "n" -> 10 [] body[2] = "\"" -> 34 [] body[2] = "\\" -> 92>>
       \o Decoded(Tail(Tail(body)))
  ELSE <<CASE Head(body) = "a" -> 97 [] Head(body) = "n" -> 110>> \o Decoded(Tail(body))

C19_StringLowering ==
  \A s \in Strings :
    (input = s.text /\ WellFormed(s.body)) =>
      /\ nstmts = 0 => status = "running" /\ err = <<>>
      /\ pc = "execute" => stmt = makePrint(Lit(Decoded(s.body)))
      /\ nstmts = 1 => out = Decoded(s.body)

(***************************************************************************)
(* C20.  Index operator: after a left operand A the infix [ takes one term *)
(* T as the index (a literal, a variable, or an expression in parentheses  *)
(* such as [5,6,7][(1 + 1)]), then requires the matching ], and makes      *)
(* Index(A, T); an index of more than one term without parentheses, such   *)
(* as [5,6,7][1 + 1], and a missing ] are syntax errors.                   *)
(***************************************************************************)
\* the first statement is parsed without an error into the print of tree
ParsesTo(first, tree) ==
  StartsWith(first) =>
    /\ nstmts = 0 => status = "running" /\ err = <<>>
    /\ (nstmts = 0 /\ pc = "execute") => stmt = makePrint(tree)

\* the one-statement program ends at once with a syntax error on line 1
IsSyntaxError(program) ==
  input = program =>
    /\ nstmts = 0
    /\ out = <<>>
    /\ \/ status = "running" /\ pc = "parse" /\ fp = input
       \/ status = "exit1" /\ err = <<"line 1: syntax error">>

C20_IndexTerm ==
  /\ ParsesTo(Statements.indexTerm,
              buildSimpleExpr(Lit(<<5, 6, 7>>), makeLiteralInt(1), "SequenceIndex"))
  /\ ParsesTo(Statements.indexVar,
              buildSimpleExpr(Lit(<<5, 6, 7>>), makeVariable("a"), "SequenceIndex"))
  /\ ParsesTo(Statements.indexParen,
              buildSimpleExpr(Lit(<<5, 6, 7>>),
                              buildSimpleExpr(makeLiteralInt(1), makeLiteralInt(1), "Add"),
                              "SequenceIndex"))
  /\ IsSyntaxError(Rejected.indexSum)
  /\ IsSyntaxError(Rejected.unclosed)

\* print [5,6,7][1 + 1]; has ended the run with a syntax error
C20_Witness ==
  /\ input = Rejected.indexSum
  /\ status = "exit1"
  /\ err = <<"line 1: syntax error">>
  /\ out = <<>>

\* the statement of the claim: any expression is accepted as the index, so
\* that  print [5,6,7][1 + 1];  is parsed into Index([5,6,7], 1 + 1)
C20_IndexAnyExpression ==
  input = Rejected.indexSum =>
    /\ status \in {"running", "exit0"}
    /\ err = <<>>
    /\ pc = "execute" =>
         stmt = makePrint(buildSimpleExpr(Lit(<<5, 6, 7>>),
                                          buildSimpleExpr(makeLiteralInt(1),
                                                          makeLiteralInt(1), "Add"),
                                          "SequenceIndex"))

(***************************************************************************)
(* Vocabulary of the properties of the examples.                           *)
(***************************************************************************)
\* the first statement of the program is parsed without an error into tree
FirstIs(program, tree) ==
  input = program =>
    /\ nstmts = 0 => status = "running" /\ err = <<>>
    /\ (nstmts = 0 /\ pc = "execute") => stmt = tree

(***************************************************************************)
(* C21.  Sequence literal grammar: a prefix [ is accepted as a sequence    *)
(* literal if and only if what follows is a possibly-empty list of         *)
(* expressions separated by single commas and closed by ]: [] gives a      *)
(* sequence initializer of zero elements, [1 + 2, 3] one of the two        *)
(* element expressions in order, and a list with a token other than , or ] *)
(* after an element, with two commas, with a comma before the first        *)
(* element or after the last one ([1,]), or without the ], is a syntax     *)
(* error.                                                                  *)
(***************************************************************************)
C21_SequenceLiteralGrammar ==
  /\ FirstIs(Examples.emptyLit, makePrint(Lit(<<>>)))
  /\ FirstIs(Examples.sumLit,
             makePrint(makeSequenceInitializer(
                         2, <<buildSimpleExpr(makeLiteralInt(1), makeLiteralInt(2), "Add"),
                              makeLiteralInt(3)>>)))
  /\ IsSyntaxError(Rejected.noComma)
  /\ IsSyntaxError(Rejected.elementSemi)
  /\ IsSyntaxError(Rejected.doubleComma)
  /\ IsSyntaxError(Rejected.leadingComma)
  /\ IsSyntaxError(Rejected.unclosedLit)
  /\ IsSyntaxError(Examples.trailing)

\* the program from its character k on
Rest(program, k) == SubSeq(program, k, Len(program))

\* parseExpr( expectToken( tok, fp ), fp ) with the stream at character k of
\* the program: it returns tree and leaves the stream at character j, so that
\* the next token read is the one character there
Terminates(program, k, tree, j) ==
  input = program =>
    \E e \in {parseExprAt(expectToken(Rest(program, k), 1))} :
      /\ ~Failed(e)
      /\ e.tree = tree
      /\ e.fp = Rest(program, j)
      /\ \E t \in {parseToken(e.fp, e.line)} :
           ~Failed(t) /\ t.tok = <<program[j]>> /\ t.fp = Rest(program, j + 1)

(***************************************************************************)
(* C22.  Expression termination: parseExpr stops at the first token after  *)
(* a term that is not an infix operator.  When that token is ; ) ] or , it *)
(* is pushed back, so that the next token the caller reads is exactly that *)
(* token and the statement around the expression is parsed; when it is any *)
(* other token, or the input ends there, the run ends with                 *)
(* line N: syntax error.                                                   *)
(***************************************************************************)
C22_ExpressionTermination ==
  /\ Terminates(Examples.emptyLit, 6, Lit(<<>>), 9)
  /\ Terminates(Examples.paren, 8,
                buildSimpleExpr(makeLiteralInt(1), makeLiteralInt(2), "Add"), 13)
  /\ Terminates(Examples.sumLit, 8,
                buildSimpleExpr(makeLiteralInt(1), makeLiteralInt(2), "Add"), 13)
  /\ Terminates(Examples.sumLit, 14, makeLiteralInt(3), 16)
  /\ FirstIs(Examples.paren,
             makePrint(buildSimpleExpr(
                         buildSimpleExpr(makeLiteralInt(1), makeLiteralInt(2), "Add"),
                         makeLiteralInt(3), "Mul")))
  /\ FirstIs(Examples.sumLit,
             makePrint(makeSequenceInitializer(
                         2, <<buildSimpleExpr(makeLiteralInt(1), makeLiteralInt(2), "Add"),
                              makeLiteralInt(3)>>)))
  /\ IsSyntaxError(Rejected.twoTerms)
  /\ IsSyntaxError(Rejected.braceAfter)
  /\ IsSyntaxError(Rejected.loneEq)
  /\ IsSyntaxError(Rejected.cutOff)
  /\ \A i \in DOMAIN Statements :
       (input = TwoLines(Statements[i], Rejected.twoTerms) /\ status = "exit1"
        /\ Running(After(Statements[i])))
         => err = <<"line 2: syntax error">>

\* print [1 + 2, 3]; was parsed: the comma and the ] that end its two element
\* expressions were read by the loop of the literal
C22_Witness ==
  /\ input = Examples.sumLit
  /\ pc = "execute"
  /\ nstmts = 0
  /\ stmt = makePrint(makeSequenceInitializer(
                        2, <<buildSimpleExpr(makeLiteralInt(1), makeLiteralInt(2), "Add"),
                             makeLiteralInt(3)>>))
  /\ fp = <<"\n">>

\* parseToken with the stream at character k of the input reads the token tok
\* and leaves the stream at character j
TokenAt(k, tok, j) ==
  \E t \in {parseToken(Rest(input, k), 1)} :
    ~Failed(t) /\ t.tok = tok /\ t.fp = Rest(input, j)

(***************************************************************************)
(* C23.  Tokenizer operator handling: wherever the input holds ==, && or   *)
(* || the two bytes are read as one token; a =, & or | followed by any     *)
(* other byte (or by the end of the input) is a token of one byte and the  *)
(* stream is left at the byte that follows, which starts the next token;   *)
(* and a - that is not followed by a digit is the token - of one byte.     *)
(* So 1==1&&0||1 is parsed as ((1 == 1) && 0) || 1, a=1; assigns 1 to a,   *)
(* and 7 -a is a subtraction.                                              *)
(***************************************************************************)
C23_OperatorTokens ==
  /\ \A k \in 1..Len(input) :
       /\ input[k] \in {"=", "&", "|"} =>
            IF k < Len(input) /\ input[k + 1] = input[k]
            THEN TokenAt(k, <<input[k], input[k]>>, k + 2)
            ELSE TokenAt(k, <<input[k]>>, k + 1)
       /\ (input[k] = "-" /\ (k = Len(input) \/ ~isdigit(input[k + 1]))) =>
            TokenAt(k, <<"-">>, k + 1)
  /\ FirstIs(Examples.tightOps,
             makePrint(buildSimpleExpr(
                         buildSimpleExpr(
                           buildSimpleExpr(makeLiteralInt(1), makeLiteralInt(1), "Equals"),
                           makeLiteralInt(0), "And"),
                         makeLiteralInt(1), "Or")))
  /\ FirstIs(Examples.tight, makeAssignment("a", NULL, makeLiteralInt(1)))
  /\ (input = Examples.tight /\ nstmts = 2) => out = <<ZERO + 1>>
  /\ FirstIs(Examples.minusVar,
             makePrint(buildSimpleExpr(makeLiteralInt(7), makeVariable("a"), "Sub")))
  /\ IsSyntaxError(Rejected.loneAmp)
  /\ IsSyntaxError(Rejected.lonePipe)
  /\ IsSyntaxError(Rejected.loneEq)

\* a=1;print a; has assigned 1 and printed it: the 1 after the = was not lost
C23_Witness ==
  /\ input = Examples.tight
  /\ nstmts = 2
  /\ out = <<ZERO + 1>>
  /\ status = "running"

\* what the claim lets the tokenizer say about a double-quoted literal, rest
\* being the input after the opening quote: "" when the literal is closed
RECURSIVE Lexical(_, _)
Lexical(rest, escape) ==
  IF rest = <<>> THEN "invalid string literal."
  ELSE IF ~escape /\ Head(rest) = "\"" THEN ""
  ELSE IF Head(rest) = "\n" THEN "invalid string literal."
  ELSE IF ~escape /\ Head(rest) = "\\" THEN Lexical(Tail(rest), TRUE)
  ELSE IF escape /\ Head(rest) \notin {"n", "t", "\"", "\\"}
  THEN "Invalid escape sequence \"\\" \o Head(rest) \o "\""
  ELSE Lexical(Tail(rest), FALSE)

\* the one-statement program ends at once with the diagnostic msg on line 1
IsRejectedWith(program, msg) ==
  input = program =>
    /\ nstmts = 0
    /\ out = <<>>
    /\ \/ status = "running" /\ pc = "parse" /\ fp = input
       \/ status = "exit1" /\ err = <<"line 1: " \o msg>>

(***************************************************************************)
(* C24.  String literal errors: in a quoted literal the escapes \n, \t,    *)
(* \" and \\ are accepted and any other escaped byte ends the run with     *)
(* line N: Invalid escape sequence "\c"; a newline or the end of the input *)
(* before the closing quote ends it with line N: invalid string literal.;  *)
(* and a single-quoted literal whose decoded body is not exactly one byte  *)
(* ends it with line N: Invalid single-quoted string, while '\n' and '"'   *)
(* are the ints 10 and 34.  N is the line of the literal.  A literal whose  *)
(* body holds accepted escapes alone draws no diagnostic.                  *)
(***************************************************************************)
C24_StringLiteralErrors ==
  /\ \A s \in Strings :
       input = s.text =>
         \E msg \in {Lexical(s.body \o <<"\"", ";", "\n">>, FALSE)} :
           /\ WellFormed(s.body) => err = <<>>
           /\ msg # "" => IsRejectedWith(s.text, msg)
  /\ IsRejectedWith(Rejected.badEscape, "Invalid escape sequence \"\\q\"")
  /\ IsRejectedWith(Rejected.charEscape, "Invalid escape sequence \"\\q\"")
  /\ IsRejectedWith(Rejected.unterminated, "invalid string literal.")
  /\ IsRejectedWith(Rejected.ifLexical, "invalid string literal.")
  /\ IsRejectedWith(Rejected.longChar, "Invalid single-quoted string")
  /\ IsRejectedWith(Rejected.emptyChar, "Invalid single-quoted string")
  /\ FirstIs(Examples.charNewline, makePrint(makeLiteralInt(NEWLINE)))
  /\ FirstIs(Examples.charQuote, makePrint(makeLiteralInt(34)))
  /\ \A j \in {"badEscape", "unterminated", "longChar"} :
       (input = TwoLines(Statements.print7, Rejected[j]) /\ status = "exit1")
         => err = <<"line 2: " \o Complaint[j]>>

\* print "a\";  has ended the run: the quote is escaped and the line ends
\* before the literal is closed
C24_Witness ==
  /\ input = <<"p", "r", "i", "n", "t", " ", "\"", "a", "\\", "\"", ";", "\n">>
  /\ status = "exit1"
  /\ err = <<"line 1: invalid string literal.">>
  /\ nstmts = 0

\* the statement st with every plain assignment of a variable, x = y, turned
\* into x = y * 1: x is bound to the same int, or to a new sequence that
\* holds a copy of the elements of y
RECURSIVE Copying(_)
Copying(st) ==
  IF st.k = "Assignment" /\ Len(st.kids) = 1 /\ st.kids[1].k = "Variable"
  THEN makeAssignment(st.s, NULL, buildSimpleExpr(st.kids[1], makeLiteralInt(1), "Mul"))
  ELSE IF st.k = "Compound"
  THEN [st EXCEPT !.kids = [i \in 1..Len(st.kids) |-> Copying(st.kids[i])]]
  ELSE IF st.k \in {"If", "While"} THEN [st EXCEPT !.kids[2] = Copying(@)]
  ELSE st

\* the machine at the end of the run of the program f in which every
\* assignment of a variable binds a copy
RECURSIVE Copied(_, _, _)
Copied(f, line, m) ==
  Only({ IF Failed(t) \/ t.tok = <<>> \/ ~Running(m) THEN m
         ELSE Only({ IF Failed(r) THEN m
                     ELSE Copied(r.fp, r.line, execute(Copying(r.tree), m, 0))
                     : r \in {parseStmt(t.tok, t.fp, t.line)} })
         : t \in {parseToken(f, line)} })

\* the run is over
Ended == status \in {"exit0", "exit1"}

(***************************************************************************)
(* C25.  Aliasing is observable through mutation, and through nothing      *)
(* else: after b = a; the two names share one sequence, so that a push to  *)
(* a or an assignment to an element of a is seen when b is read            *)
(* (a = [1,2]; b = a; push a, 3; print len b; prints 3, and with           *)
(* a[0] = 7; print b[0]; prints 7), where a run in which b = a; binds a    *)
(* copy prints 2 and 1; every other program of the model, among them the   *)
(* ones that alias and then only read, compare or rebind, prints the same  *)
(* with shared sequences and with copies.                                  *)
(***************************************************************************)
C25_AliasingSeenByMutation ==
  /\ (Ended /\ input \notin {Examples.aliasPush, Examples.aliasStore}) =>
       out = Copied(input, 1, Started).out
  /\ (status = "exit0" /\ input = Examples.aliasPush) =>
       /\ out = <<ZERO + 3>>
       /\ Copied(input, 1, Started).out = <<ZERO + 2>>
  /\ (status = "exit0" /\ input = Examples.aliasStore) =>
       /\ out = <<ZERO + 7>>
       /\ Copied(input, 1, Started).out = <<ZERO + 1>>
  /\ (input \in {Examples.aliasPush, Examples.aliasStore}) =>
       status \in {"running", "exit0"}

\* a = [1,2]; b = a; push a, 3; print len b; has run to its end and printed 3
C25_Witness ==
  /\ input = Examples.aliasPush
  /\ status = "exit0"
  /\ nstmts = 4
  /\ out = <<ZERO + 3>>

\* the statement of the claim: every program prints the same with shared
\* sequences and with copies
C25_AliasingUnobservable ==
  Ended => out = Copied(input, 1, Started).out

(***************************************************************************)
(* C26.  Holder invariant: between two statement executions every sequence *)
(* that a record of the environment names is live (not freed) and its      *)
(* reference count is the number of records bound to it.  A plain          *)
(* assignment grabs a sequence result before setVariable releases the old  *)
(* value of the name, so that after a = [1,2]; a = a; the name a still     *)
(* holds the live sequence 1 2 with count 1, and after a = [1,2]; b = a;   *)
(* a = 7; the name b holds it with count 1.                                *)
(***************************************************************************)
C26_HolderInvariant ==
  /\ status = "running" =>
       \A i \in 1..Len(env.vlist) :
         env.vlist[i].val.vtype = "SeqType" =>
           /\ env.vlist[i].val.sval \in Objects
           /\ heap[env.vlist[i].val.sval].frees = 0
           /\ heap[env.vlist[i].val.sval].ref = Cardinality(Holders(env.vlist[i].val.sval))
  /\ status \in {"running", "exit0", "exit1"}
  /\ (input = Examples.selfAssign /\ nstmts >= 2 /\ status = "running") =>
       /\ Bound("a") = SeqValue(1)
       /\ heap[1] = [seq |-> <<1, 2>>, cap |-> INIT_CAP, ref |-> 1, frees |-> 0]
  /\ (input = Examples.selfAssign /\ nstmts = 3) => out = <<ZERO + 2>>
  /\ (input = Examples.rebind /\ nstmts = 2 /\ status = "running") =>
       /\ Bound("a") = SeqValue(1) /\ Bound("b") = SeqValue(1)
       /\ heap[1].ref = 2 /\ heap[1].frees = 0
  /\ (input = Examples.rebind /\ nstmts >= 3 /\ status = "running") =>
       /\ Bound("a") = IntValue(7) /\ Bound("b") = SeqValue(1)
       /\ heap[1] = [seq |-> <<1, 2>>, cap |-> INIT_CAP, ref |-> 1, frees |-> 0]

\* a = [1,2]; a = a; has run: a holds the sequence, which is live
C26_Witness ==
  /\ input = Examples.selfAssign
  /\ nstmts = 2
  /\ status = "running"
  /\ Bound("a") = SeqValue(1)
  /\ heap[1].ref = 1
  /\ heap[1].frees = 0

\* c is the initial capacity doubled some number of times
RECURSIVE IsCapacity(_)
IsCapacity(c) ==
  \/ c = INIT_CAP
  \/ c > INIT_CAP /\ c % DOUBLE_CAP = 0 /\ IsCapacity(c \div DOUBLE_CAP)

\* the sequence objects that were not freed
Live == {p \in Objects : heap[p].frees = 0}

(***************************************************************************)
(* C27.  Capacity invariant: every sequence, built by a literal, by Add,   *)
(* by Mul or grown by push, has 0 <= len <= cap with cap = 5 * 2^k.  The   *)
(* capacity is doubled only by a write attempted when len = cap: while the *)
(* run goes on a capacity above 5 is less than twice the length, and the   *)
(* capacity of a sequence changes from one statement to the next only when *)
(* its length grows past the old capacity.  So a push to 1 2 3 4 5 turns   *)
(* the capacity 5 into 10, a + a of it fills the capacity 10, and a push   *)
(* to that makes it 20.                                                    *)
(***************************************************************************)
C27_CapacityInvariant ==
  /\ [](/\ \A p \in Live :
             /\ Len(heap[p].seq) <= heap[p].cap
             /\ IsCapacity(heap[p].cap)
             /\ status = "running" =>
                  \/ heap[p].cap = INIT_CAP
                  \/ heap[p].cap \div DOUBLE_CAP < Len(heap[p].seq)
        /\ (input = Examples.fiveGrow /\ nstmts = 1 /\ status = "running") =>
             Len(heap[1].seq) = 5 /\ heap[1].cap = 5
        /\ (input = Examples.fiveGrow /\ nstmts = 2 /\ status = "running") =>
             heap[1].seq = <<1, 2, 3, 4, 5, 6>> /\ heap[1].cap = 10
        /\ (input = Examples.fiveDouble /\ nstmts = 2 /\ status = "running") =>
             Len(heap[2].seq) = 10 /\ heap[2].cap = 10
        /\ (input = Examples.fiveDouble /\ nstmts = 3 /\ status = "running") =>
             Len(heap[2].seq) = 11 /\ heap[2].cap = 20
        /\ (input = Examples.fiveTriple /\ nstmts = 2 /\ status = "running") =>
             Len(heap[2].seq) = 15 /\ heap[2].cap = 20
        /\ (input = Examples.sixLit /\ nstmts = 1 /\ status = "running") =>
             Len(heap[1].seq) = 6 /\ heap[1].cap = 10
        /\ (input = Examples.intPlusSeq /\ nstmts = 1 /\ status = "running") =>
             heap[2].seq = <<0, 1, 2, 3, 4, 5>> /\ heap[2].cap = 10
        /\ (input = Examples.fill /\ nstmts = 3 /\ status = "running") =>
             Len(heap[1].seq) = 11 /\ heap[1].cap = 20)
  /\ [][\A p \in Live :
          (p \in Objects' /\ heap'[p].frees = 0 /\ heap'[p].cap # heap[p].cap) =>
            /\ heap'[p].cap > heap[p].cap
            /\ Len(heap'[p].seq) > heap[p].cap]_vars

\* the push to the sequence 1 2 3 4 5, which filled its capacity, has doubled it
C27_Witness ==
  /\ input = Examples.fiveGrow
  /\ nstmts = 2
  /\ status = "running"
  /\ Len(heap[1].seq) = 6
  /\ heap[1].cap = INIT_CAP * DOUBLE_CAP

\* the run has executed n statements of the program and goes on
Past(program, n) == input = program /\ nstmts = n /\ status = "running"

\* the run has ended in statement n of the program with Type mismatch
Mismatch(program, n) ==
  input = program /\ nstmts = n /\ status = "exit1" /\ err = <<"Type mismatch">>

(***************************************************************************)
(* C28.  While/If control: while (c) b evaluates c before every iteration  *)
(* and executes b once per consecutive nonzero result, up to the first     *)
(* evaluation of c that gives 0, so that c is evaluated once more than b   *)
(* is executed: with i = 0 the loop while (i < len [7,7]) { print i;       *)
(* i = i + 1; } prints 01 and has built the literal of its condition three *)
(* times, and while (0) executes nothing.  if (c) b executes b once when c *)
(* is nonzero (2, or -1) and not at all when c is 0.  A condition that is  *)
(* a sequence ends the run with Type mismatch, at the first evaluation and *)
(* at a re-evaluation after the body has run.                              *)
(***************************************************************************)
C28_WhileIfControl ==
  /\ Past(Examples.countUp, 2) =>
       /\ out = <<ZERO, ZERO + 1>>
       /\ Bound("i") = IntValue(2)
       /\ Len(heap) = 3
       /\ \A p \in Objects : heap[p].frees = 1
  /\ (input = Examples.countUp /\ nstmts = 2) => status \in {"running", "exit0"}
  /\ Past(Examples.fill, 3) =>
       /\ heap[1].seq = <<0, 1, 2, 3, 4, 5, 6, 7, 8, 9, 10>>
       /\ Bound("i") = IntValue(11)
  /\ Past(Examples.whileFalse, 1) => out = <<>>
  /\ Past(Examples.whileFalse, 2) => out = <<ZERO + 9>>
  /\ Past(Examples.ifZero, 1) => out = <<>>
  /\ Past(Examples.ifZero, 2) => out = <<ZERO + 9>>
  /\ Past(Examples.ifTwo, 1) => out = <<ZERO + 1>>
  /\ Past(Examples.ifTwo, 2) => out = <<ZERO + 1, ZERO + 9>>
  /\ Past(Examples.ifNegative, 1) => out = <<ZERO + 1>>
  /\ \A j \in {"whileFalse", "ifZero", "ifTwo", "ifNegative", "fill"} :
       input = Examples[j] => status \in {"running", "exit0"}
  /\ (input = Examples.whileSeq /\ nstmts = 1) =>
       Mismatch(Examples.whileSeq, 1) /\ out = <<>>
  /\ (input = Examples.ifSeq /\ nstmts = 1) =>
       Mismatch(Examples.ifSeq, 1) /\ out = <<>>
  /\ (input = Examples.whileTurnsSeq /\ nstmts = 2) =>
       Mismatch(Examples.whileTurnsSeq, 2) /\ out = <<ZERO + 5>>

\* the loop whose body makes its condition a sequence has run the body once
\* and ended with Type mismatch at the second evaluation of the condition
C28_Witness ==
  /\ Mismatch(Examples.whileTurnsSeq, 2)
  /\ out = <<ZERO + 5>>
  /\ Bound("c").vtype = "SeqType"

\* the last of the digits that follow character k of the input
LastDigit(k) ==
  CHOOSE e \in (k + 1)..Len(input) :
    /\ \A i \in (k + 1)..e : isdigit(input[i])
    /\ e = Len(input) \/ ~isdigit(input[e + 1])

(***************************************************************************)
(* C29.  A - immediately followed by a digit is always the start of an     *)
(* integer literal, whatever precedes it: wherever the input holds a - and *)
(* then a digit, the token read there is the - with all the digits that    *)
(* follow.  A subtraction is recognised only when the byte after the - is  *)
(* not a digit: a = 7; print a - 1; prints 6 and print 7 -a; is a          *)
(* subtraction, while print a -1; and print a-1; end the run with          *)
(* line N: syntax error.                                                   *)
(***************************************************************************)
C29_MinusBeforeDigit ==
  /\ \A k \in 1..Len(input) :
       (input[k] = "-" /\ k < Len(input) /\ isdigit(input[k + 1])) =>
         TokenAt(k, SubSeq(input, k, LastDigit(k)), LastDigit(k) + 1)
  /\ IsSyntaxError(Rejected.minusDigit)
  /\ IsSyntaxError(Rejected.minusTight)
  /\ \A i \in DOMAIN Statements :
       (input = TwoLines(Statements[i], Rejected.minusDigit) /\ status = "exit1"
        /\ Running(After(Statements[i])))
         => err = <<"line 2: syntax error">>
  /\ (input = Examples.minusSpace /\ nstmts = 1 /\ pc = "execute") =>
       stmt = makePrint(buildSimpleExpr(makeVariable("a"), makeLiteralInt(1), "Sub"))
  /\ Past(Examples.minusSpace, 2) => out = <<ZERO + 6>>
  /\ input = Examples.minusSpace => status \in {"running", "exit0"}
  /\ FirstIs(Examples.minusVar,
             makePrint(buildSimpleExpr(makeLiteralInt(7), makeVariable("a"), "Sub")))

\* print a -1; has ended the run: the tokens are a and -1, and no operator
C29_Witness ==
  /\ input = Rejected.minusDigit
  /\ status = "exit1"
  /\ err = <<"line 1: syntax error">>
  /\ nstmts = 0
  /\ out = <<>>

\* the statements of Rejected that are a block, or an if or a while with a
\* block as its body, with an error inside the block
BrokenBlocks == {"blockSyntax", "ifLexical", "whileSyntax"}

(***************************************************************************)
(* C30.  A compound statement, and the body of a top-level if or while, is *)
(* parsed up to its closing token before any statement inside it executes: *)
(* when { print 1; print 2; } is handed to the evaluator it is the whole   *)
(* block and nothing was printed; and a lexical or syntax error inside a   *)
(* top-level block ends the run with none of the prints, pushes and        *)
(* assignments of that block performed, while the output, the environment  *)
(* and the sequences are as the earlier top-level statement left them.     *)
(***************************************************************************)
C30_BlockParsedBeforeExecution ==
  /\ [](/\ (StartsWith(Statements.block) /\ nstmts = 0 /\ pc = "execute") =>
             /\ stmt = makeCompound(2, <<makePrint(makeLiteralInt(1)),
                                         makePrint(makeLiteralInt(2))>>)
             /\ out = <<>>
             /\ fp = Rest(input, Len(Statements.block) + 1)
        /\ \A j \in BrokenBlocks :
             /\ IsRejectedWith(Rejected[j], Complaint[j])
             /\ input = Rejected[j] => env = makeEnvironment /\ heap = <<>>
             /\ \A i \in DOMAIN Statements :
                  input = TwoLines(Statements[i], Rejected[j]) =>
                    /\ nstmts <= 1
                    /\ nstmts = 1 =>
                         \E m \in {After(Statements[i])} :
                           /\ out = m.out /\ env = m.env /\ heap = m.heap
                           /\ Running(m) =>
                                \/ status = "running" /\ pc = "parse"
                                \/ status = "exit1"
                                   /\ err = <<"line 2: " \o Complaint[j]>>)
  /\ [][pc' = "execute" => (stmt' # NoStmt /\ out' = out /\ env' = env /\ heap' = heap)]_vars

\* a = [1,2]; was executed and the loop on the next line, with a push to a
\* and a syntax error in its block, has ended the run: a is as it was
C30_Witness ==
  /\ input = TwoLines(Statements.bind, Rejected.whileSyntax)
  /\ status = "exit1"
  /\ err = <<"line 2: syntax error">>
  /\ nstmts = 1
  /\ Bound("a") = SeqValue(1)
  /\ heap[1].seq = <<1, 2>>
  /\ out = <<>>

====
